---- MODULE Spec2Model ----
(***************************************************************************)
(* Model of novel_downloader/core: GoogleTranslator (translator.py), the   *)
(* cleaning fallback of ContentCleaner.clean_html (cleaner.py) and          *)
(* TranslatedEPUBBuilder.build_with_translation (epub_builder.py).          *)
(*                                                                          *)
(* Strings are sequences of one-character strings.  "z1" and "z2" stand    *)
(* for two CJK ideographs, "a" and "b" for their Latin renderings, " " for *)
(* white space.  Python list indices are 0-based; here they are 1-based.   *)
(***************************************************************************)
EXTENDS Integers, Sequences, FiniteSets, TLC

(* ---------------------------------------------------------------------- *)
(* Bounds of the model                                                     *)
(* ---------------------------------------------------------------------- *)
\* retry passes one invocation may start in the model
MaxPass == 2
\* configured max_workers of the translator under test
MaxWorkers == 2
\* configured base max_retries of the translator under test
BaseRetries == 2
\* number of leading calls per text that the flaky backend fails
FlakyK == 5
\* retry passes one invocation may start against the stuck backend
MaxPassLong == 6

(* ---------------------------------------------------------------------- *)
(* Program constants                                                       *)
(* ---------------------------------------------------------------------- *)
\* scan threshold: an entry is failing when it has more CJK characters
ChineseThreshold == 5
\* stall_count value from which maximum backoff is forced
StallLimit == 3
\* forced values under stall: cooldown, interval (tenths of a second), workers
StallCooldown == 90
StallInterval == 25
StallWorkers == 3
\* failure-log preview length
PreviewLen == 50

\* escalation tables, intervals in tenths of a second
WORKER_STEPS == <<0, 50, 30, 20, 10, 5>>
INTERVAL_STEPS == <<0, 3, 5, 10, 15, 20>>
COOLDOWN_STEPS == <<0, 5, 10, 20, 30, 60>>
EXTRA_RETRIES == <<0, 0, 1, 1, 2, 3>>

(* ---------------------------------------------------------------------- *)
(* Strings                                                                 *)
(* ---------------------------------------------------------------------- *)
Zh == {"z1", "z2"}

Min(a, b) == IF a <= b THEN a ELSE b
Max(a, b) == IF a >= b THEN a ELSE b

RECURSIVE LStrip(_)
LStrip(s) == IF s # <<>> /\ Head(s) = " " THEN LStrip(Tail(s)) ELSE s

RECURSIVE RStrip(_)
RStrip(s) == IF s # <<>> /\ s[Len(s)] = " " THEN RStrip(SubSeq(s, 1, Len(s) - 1)) ELSE s

\* str.strip()
Strip(s) == RStrip(LStrip(s))

\* GoogleTranslator._count_chinese / cleaner.count_chinese_chars
CountChinese(s) == Cardinality({i \in DOMAIN s : s[i] \in Zh})

\* GoogleTranslator._contains_chinese / cleaner.is_chinese
ContainsChinese(s) == \E i \in DOMAIN s : s[i] \in Zh

Rep(c, n) == [i \in 1..n |-> c]

TX == Rep("z1", 6)
TY == Rep("z2", 6)
TPadX == <<" ">> \o TX
TShort == <<"z1", "z2">>
TBlank == <<" ">>

(* ---------------------------------------------------------------------- *)
(* The translation endpoint (external)                                     *)
(* ---------------------------------------------------------------------- *)
Latin(c) == IF c = "z1" THEN "a" ELSE IF c = "z2" THEN "b" ELSE c

\* a complete translation of s
Tr(s) == [i \in DOMAIN s |-> Latin(s[i])]

\* a translation of s that leaves its first CJK character untranslated
Resid(s) ==
  LET first == CHOOSE i \in DOMAIN s : s[i] \in Zh /\ \A j \in 1..(i - 1) : s[j] \notin Zh
  IN  [i \in DOMAIN s |-> IF i = first THEN s[i] ELSE Latin(s[i])]

\* what one request for text s may yield: an error (timeout, HTTP error, bad
\* JSON), an empty translation, a translation of white space only, or another
\* non-empty string
Err == [ok |-> FALSE, trans |-> <<>>]
Got(t) == [ok |-> TRUE, trans |-> t]

Responses(s, mode, ncalls) ==
  IF mode = "flaky"
  THEN IF ncalls < FlakyK THEN {Err} ELSE {Got(Tr(s))}
  ELSE IF mode = "stuck"
       THEN IF ncalls < BaseRetries THEN {Err} ELSE {Got(s), Got(Tr(s))}
  ELSE {Err, Got(<<>>), Got(<<" ">>), Got(Tr(s)), Got(Resid(s)), Got(s)}

(* ---------------------------------------------------------------------- *)
(* State                                                                   *)
(* ---------------------------------------------------------------------- *)
VARIABLES
  texts,              \* argument of translate_texts_with_retry
  backend,            \* behaviour of the endpoint: "any", "flaky" or "stuck"
  calls,              \* flaky and stuck endpoint: requests received per text
  cancel,             \* self._cancel_requested
  max_workers,        \* self.max_workers
  max_retries,        \* self.max_retries
  request_interval,   \* self.request_interval (tenths of a second)
  cache,              \* self.cache
  stats,              \* self.stats
  completed,          \* self.completed
  total,              \* self.total
  failed_texts,       \* self.failed_texts
  pc,                 \* position of the coordinating thread
  results,            \* results of translate_texts_with_retry
  batch,              \* texts submitted to the current pool
  tasks,              \* one _translate_single call per submitted text
  collected,          \* futures already yielded by as_completed
  looping,            \* the as_completed loop has not hit its break
  workers,            \* max_workers of the current ThreadPoolExecutor
  retry_pass,
  prev_failed_count,  \* -1 stands for None
  stall_count,
  failed_indices,
  cooldown_left,      \* iterations left of the 1-second cooldown loop
  pass_cfg,           \* workers_cap, interval, cooldown, extra_retry of the pass
  retry_results,
  old_cfg,            \* old_interval, old_max_retries
  locks,              \* holder of cache_lock, stats_lock, progress_lock, failed_lock:
                      \* 0 nobody, i the call of position i, -1 the coordinating thread
  bpc,                \* position of build_with_translation ("none": not running)
  source,             \* the chapters as the caller supplied them
  novel_info,         \* novel_info.title, novel_info.author
  chapters,           \* the chapters, mutated in place
  all_texts,          \* (text_type, index, original_text) entries
  clean_idx,          \* loop index of the cleaning loop
  translated,         \* list returned by the translator
  chapters_with_chinese, \* self.chapters_with_chinese
  packaged,           \* the chapters handed to self.build
  html_in,            \* argument of the first clean_html call
  html_out,           \* what clean_html returned, each call fed the previous output
  xdoc_in,            \* document parsed by the first process_xhtml call
  xdoc_out,           \* documents process_xhtml serialized, each call fed the previous
  xpc,                \* position of process_xhtml: "idle" or "fixed"
  xtree,              \* root of the running process_xhtml call
  cancel_requested,   \* App.cancel_requested
  progress_callback   \* self.progress_callback: "none", or "app" for the chain
                      \* translate_progress -> App._download_thread.progress_cb

tvars == <<texts, backend, calls, cancel, max_workers, max_retries, request_interval,
           cache, stats, completed, total, failed_texts, pc, results, batch, tasks,
           collected, looping, workers, retry_pass, prev_failed_count, stall_count,
           failed_indices, cooldown_left, pass_cfg, retry_results, old_cfg, locks>>

bvars == <<bpc, source, novel_info, chapters, all_texts, clean_idx, translated,
           chapters_with_chinese, packaged>>

cvars == <<html_in, html_out, xdoc_in, xdoc_out, xpc, xtree>>

avars == <<cancel_requested, progress_callback>>

vars == <<tvars, bvars, cvars, avars>>

NoCfg == [workers_cap |-> 0, interval |-> 0, cooldown |-> 0, extra_retry |-> 0]
NoOld == [interval |-> 0, max_retries |-> 0]

\* the argument lists tried
TextLists == {<<>>, <<TX, TY>>, <<TX, TPadX>>, <<TShort, TX, TBlank>>}

\* GoogleTranslator.__init__ (lines 30-73)
\* lines 59-61 and 70: four locks, held by nobody
Unlocked == [cache |-> 0, stats |-> 0, progress |-> 0, failed |-> 0]

TFreshWith(mode, w) ==
  /\ backend = mode
  /\ locks = Unlocked
  /\ calls = [t \in {} |-> 0]
  /\ cancel = FALSE
  /\ max_workers = w
  /\ max_retries = BaseRetries
  /\ request_interval = 0
  /\ cache = [k \in {} |-> <<>>]
  /\ stats = [requests |-> 0, cache_hits |-> 0, errors |-> 0, retry_passes |-> 0]
  /\ completed = 0
  /\ total = 0
  /\ failed_texts = <<>>
  /\ results = <<>>
  /\ batch = <<>>
  /\ tasks = <<>>
  /\ collected = {}
  /\ looping = FALSE
  /\ workers = 0
  /\ retry_pass = 0
  /\ prev_failed_count = -1
  /\ stall_count = 0
  /\ failed_indices = <<>>
  /\ cooldown_left = 0
  /\ pass_cfg = NoCfg
  /\ retry_results = <<>>
  /\ old_cfg = NoOld

TFresh(mode) == TFreshWith(mode, MaxWorkers)

\* no build_with_translation is running
NoBuild ==
  /\ bpc = "none"
  /\ source = <<>>
  /\ novel_info = [title |-> <<>>, author |-> <<>>]
  /\ chapters = <<>>
  /\ all_texts = <<>>
  /\ clean_idx = 0
  /\ translated = <<>>
  /\ chapters_with_chinese = <<>>
  /\ packaged = <<>>

\* a document: the children of each head element, in document order, and the
\* markup that follows the heads
NoDoc == [heads |-> <<>>, content |-> <<>>]

\* the cleaner is not called on its own
NoClean ==
  /\ html_in = <<>>
  /\ html_out = <<>>
  /\ xdoc_in = NoDoc
  /\ xdoc_out = <<>>
  /\ xpc = "idle"
  /\ xtree = NoDoc

\* no application around the translator: nobody presses Cancel, and no
\* progress callback is passed
NoApp ==
  /\ cancel_requested = FALSE
  /\ progress_callback = "none"

\* a fresh translator on which translate_texts_with_retry(texts) is called
TInit(mode) ==
  /\ texts \in TextLists
  /\ pc = "idle"
  /\ TFresh(mode)
  /\ NoBuild
  /\ NoClean
  /\ NoApp

(* ---------------------------------------------------------------------- *)
(* GoogleTranslator._translate_single, one call per submitted text         *)
(* ---------------------------------------------------------------------- *)
\* a call: its position, the failed attempts of its loop so far, the seconds
\* it slept after the last of them, and its translation or return value
Ret(v) == [pc |-> "ret", attempt |-> 0, wait |-> 0, val |-> v]
Pending == [pc |-> "pending", attempt |-> 0, wait |-> 0, val |-> <<>>]

\* threads of the pool that are inside a call
Running == {i \in DOMAIN tasks : tasks[i].pc \notin {"pending", "ret"}}

PoolOpen == pc \in {"first_pass", "retry_pass"}

\* lines 81-87: the cancellation and emptiness checks at the top of the call
TopOfCall(text, c) ==
  IF c THEN Ret(text)
  ELSE IF text = <<>> \/ Strip(text) = <<>> THEN Ret(text)
  ELSE [pc |-> "cache", attempt |-> 0, wait |-> 0, val |-> <<>>]

\* a pool thread takes the oldest queued call and runs it up to the cache lookup
TaskStart(i) ==
  /\ PoolOpen
  /\ i \in DOMAIN tasks
  /\ tasks[i].pc = "pending"
  /\ \A j \in 1..(i - 1) : tasks[j].pc # "pending"
  /\ Cardinality(Running) < workers
  /\ tasks' = [tasks EXCEPT ![i] = TopOfCall(batch[i], cancel)]
  /\ UNCHANGED <<locks, avars, cvars, bvars, texts, backend, calls, cancel, max_workers, max_retries, request_interval,
                 cache, stats, completed, total, failed_texts, pc, results, batch,
                 collected, looping, workers, retry_pass, prev_failed_count, stall_count,
                 failed_indices, cooldown_left, pass_cfg, retry_results, old_cfg>>

\* mutant of CacheLookup: the cache looked up by the untrimmed text
CacheLookupUntrimmed(text, c) ==
  IF text \in DOMAIN c
  THEN [hit |-> TRUE, task |-> Ret(c[text])]
  ELSE [hit |-> FALSE, task |-> [pc |-> "attempt", attempt |-> 0, wait |-> 0, val |-> <<>>]]

\* lines 89-95: the lookup under cache_lock
CacheLookup(text, c) ==
  LET key == Strip(text)
  IN  IF key \in DOMAIN c
      THEN [hit |-> TRUE, task |-> Ret(c[key])]
      ELSE [hit |-> FALSE, task |-> [pc |-> "attempt", attempt |-> 0, wait |-> 0, val |-> <<>>]]

\* lines 181-182, epub_builder.py lines 299-307 and app.py lines 491-494: the
\* flag after _update_progress has called the progress callback
AfterCallback(c) ==
  IF progress_callback = "app" /\ total > 0 /\ cancel_requested THEN TRUE ELSE c

TaskCache(i) ==
  /\ i \in DOMAIN tasks
  /\ tasks[i].pc = "cache"
  /\ LET r == CacheLookup(batch[i], cache)
     IN  /\ tasks' = [tasks EXCEPT ![i] = r.task]
         /\ stats' = IF r.hit THEN [stats EXCEPT !.cache_hits = @ + 1] ELSE stats
         /\ completed' = IF r.hit THEN completed + 1 ELSE completed
         /\ cancel' = IF r.hit THEN AfterCallback(cancel) ELSE cancel
  /\ UNCHANGED <<locks, avars, cvars, bvars, texts, backend, calls, max_workers, max_retries, request_interval,
                 cache, total, failed_texts, pc, results, batch,
                 collected, looping, workers, retry_pass, prev_failed_count, stall_count,
                 failed_indices, cooldown_left, pass_cfg, retry_results, old_cfg>>

\* lines 107-109: head of "for attempt in range(self.max_retries)" and its check
AttemptHead(t, text, limit, c) ==
  IF t.attempt >= limit THEN [t EXCEPT !.pc = "failed"]
  ELSE IF c THEN Ret(text)
  ELSE [t EXCEPT !.pc = "request", !.wait = 0]

TaskAttempt(i) ==
  /\ i \in DOMAIN tasks
  /\ tasks[i].pc = "attempt"
  /\ tasks' = [tasks EXCEPT ![i] = AttemptHead(tasks[i], batch[i], max_retries, cancel)]
  /\ UNCHANGED <<locks, avars, cvars, bvars, texts, backend, calls, cancel, max_workers, max_retries, request_interval,
                 cache, stats, completed, total, failed_texts, pc, results, batch,
                 collected, looping, workers, retry_pass, prev_failed_count, stall_count,
                 failed_indices, cooldown_left, pass_cfg, retry_results, old_cfg>>

\* line 138: "if translated and translated.strip()"
Usable(r) == r.ok /\ r.trans # <<>> /\ Strip(r.trans) # <<>>

\* mutant of Backoff: a sleep after the last attempt as well
BackoffAlways(failures, limit) == 2 ^ failures

\* lines 161-164: the sleep after the failures-th failed attempt, in seconds
Backoff(failures, limit) == IF failures < limit THEN 2 ^ failures ELSE 0

\* lines 111-137 and 156-164: one request; an unusable answer is an exception,
\* followed by the backoff sleep unless it was the last attempt
AfterRequest(t, r, limit) ==
  IF Usable(r) THEN [t EXCEPT !.pc = "store", !.val = r.trans, !.wait = 0]
  ELSE [t EXCEPT !.pc = "attempt", !.attempt = @ + 1,
                 !.wait = Backoff(t.attempt + 1, limit)]

CallsOf(text) == IF text \in DOMAIN calls THEN calls[text] ELSE 0

TaskRequest(i) ==
  /\ i \in DOMAIN tasks
  /\ tasks[i].pc = "request"
  /\ \E r \in Responses(batch[i], backend, CallsOf(batch[i])) :
       tasks' = [tasks EXCEPT ![i] = AfterRequest(tasks[i], r, max_retries)]
  /\ calls' = IF backend \in {"flaky", "stuck"}
              THEN [t \in DOMAIN calls \cup {batch[i]} |->
                      IF t = batch[i] THEN CallsOf(t) + 1 ELSE calls[t]]
              ELSE calls
  /\ UNCHANGED <<locks, avars, cvars, bvars, texts, backend, cancel, max_workers, max_retries, request_interval,
                 cache, stats, completed, total, failed_texts, pc, results, batch,
                 collected, looping, workers, retry_pass, prev_failed_count, stall_count,
                 failed_indices, cooldown_left, pass_cfg, retry_results, old_cfg>>

\* lines 140-141: self.cache[cache_key] = translated
CachePut(c, text, v) ==
  LET key == Strip(text)
  IN  [k \in DOMAIN c \cup {key} |-> IF k = key THEN v ELSE c[k]]

\* lines 138-155: a usable translation is cached, counted and returned
TaskStore(i) ==
  /\ i \in DOMAIN tasks
  /\ tasks[i].pc = "store"
  /\ cache' = CachePut(cache, batch[i], tasks[i].val)
  /\ stats' = [stats EXCEPT !.requests = @ + 1]
  /\ completed' = completed + 1
  /\ tasks' = [tasks EXCEPT ![i] = Ret(tasks[i].val)]
  /\ cancel' = AfterCallback(cancel)
  /\ UNCHANGED <<locks, avars, cvars, bvars, texts, backend, calls, max_workers, max_retries, request_interval,
                 total, failed_texts, pc, results, batch,
                 collected, looping, workers, retry_pass, prev_failed_count, stall_count,
                 failed_indices, cooldown_left, pass_cfg, retry_results, old_cfg>>

\* line 168
Preview(text) ==
  IF Len(text) > PreviewLen THEN SubSeq(text, 1, PreviewLen) \o <<".", ".", ".">> ELSE text

\* mutant of FailureOutcome: a failed call returns the empty string
FailureOutcomeEmpty(text) == Ret(<<>>)

\* lines 166-175: all attempts failed
FailureOutcome(text) == Ret(text)

TaskFailed(i) ==
  /\ i \in DOMAIN tasks
  /\ tasks[i].pc = "failed"
  /\ failed_texts' = Append(failed_texts, <<i, Preview(batch[i])>>)
  /\ stats' = [stats EXCEPT !.errors = @ + 1]
  /\ completed' = completed + 1
  /\ tasks' = [tasks EXCEPT ![i] = FailureOutcome(batch[i])]
  /\ cancel' = AfterCallback(cancel)
  /\ UNCHANGED <<locks, avars, cvars, bvars, texts, backend, calls, max_workers, max_retries, request_interval,
                 cache, total, pc, results, batch,
                 collected, looping, workers, retry_pass, prev_failed_count, stall_count,
                 failed_indices, cooldown_left, pass_cfg, retry_results, old_cfg>>

(* ---------------------------------------------------------------------- *)
(* GoogleTranslator.cancel                                                 *)
(* ---------------------------------------------------------------------- *)
Cancel ==
  /\ pc \notin {"off", "done"}
  /\ ~cancel
  /\ cancel' = TRUE
  /\ UNCHANGED <<locks, avars, cvars, bvars, texts, backend, calls, max_workers, max_retries, request_interval,
                 cache, stats, completed, total, failed_texts, pc, results, batch, tasks,
                 collected, looping, workers, retry_pass, prev_failed_count, stall_count,
                 failed_indices, cooldown_left, pass_cfg, retry_results, old_cfg>>

(* ---------------------------------------------------------------------- *)
(* GoogleTranslator.translate_texts (the first pass)                       *)
(* ---------------------------------------------------------------------- *)
Blanks(n) == [i \in 1..n |-> <<>>]
AllPending(n) == [i \in 1..n |-> Pending]

\* translate_texts lines 199-215, called on line 281; taken from "idle" the
\* step includes lines 259-281 of translate_texts_with_retry
Start ==
  /\ pc \in {"idle", "entered"}
  /\ IF texts = <<>>
     THEN /\ pc' = "done"
          /\ UNCHANGED <<cancel, total, completed, failed_texts, workers, results,
                         batch, tasks, collected, looping>>
     ELSE /\ pc' = "first_pass"
          /\ cancel' = FALSE
          /\ total' = Len(texts)
          /\ completed' = 0
          /\ failed_texts' = <<>>
          /\ workers' = Min(max_workers, Len(texts))
          /\ results' = Blanks(Len(texts))
          /\ batch' = texts
          /\ tasks' = AllPending(Len(texts))
          /\ collected' = {}
          /\ looping' = TRUE
  /\ UNCHANGED <<locks, avars, cvars, bvars, texts, backend, calls, max_workers, max_retries, request_interval,
                 cache, stats, retry_pass, prev_failed_count, stall_count,
                 failed_indices, cooldown_left, pass_cfg, retry_results, old_cfg>>

\* mutant of StoreResult: results kept in completion order
StoreResultInCompletionOrder(res, index, value) ==
  [res EXCEPT ![Cardinality(collected) + 1] = value]

\* lines 221-222 and 378-379: results[index] = translated
StoreResult(res, index, value) == [res EXCEPT ![index] = value]

\* lines 217-225 and 374-381: one iteration of the as_completed loop
Collect(i) ==
  /\ PoolOpen
  /\ i \in DOMAIN tasks
  /\ looping
  /\ i \notin collected
  /\ tasks[i].pc = "ret"
  /\ IF cancel
     THEN /\ looping' = FALSE
          /\ UNCHANGED <<collected, results, retry_results>>
     ELSE /\ collected' = collected \cup {i}
          /\ looping' = looping
          /\ results' = IF pc = "first_pass"
                        THEN StoreResult(results, i, tasks[i].val) ELSE results
          /\ retry_results' = IF pc = "retry_pass"
                              THEN StoreResult(retry_results, i, tasks[i].val)
                              ELSE retry_results
  /\ UNCHANGED <<locks, avars, cvars, bvars, texts, backend, calls, cancel, max_workers, max_retries, request_interval,
                 cache, stats, completed, total, failed_texts, pc, batch, tasks,
                 workers, retry_pass, prev_failed_count, stall_count,
                 failed_indices, cooldown_left, pass_cfg, old_cfg>>

\* mutant of PoolDrained: shutdown(wait=False)
PoolNotAwaited == TRUE

\* ThreadPoolExecutor.__exit__: shutdown(wait=True) returns when no call is
\* queued or running
PoolDrained == \A i \in DOMAIN tasks : tasks[i].pc = "ret"

\* lines 211-227 and 369-381: leaving the "with" block
PoolExit ==
  /\ PoolOpen
  /\ ~looping \/ collected = DOMAIN tasks
  /\ PoolDrained
  /\ pc' = IF pc = "first_pass" THEN "loop" ELSE "apply"
  /\ UNCHANGED <<locks, avars, cvars, bvars, texts, backend, calls, cancel, max_workers, max_retries, request_interval,
                 cache, stats, completed, total, failed_texts, results, batch, tasks,
                 collected, looping, workers, retry_pass, prev_failed_count, stall_count,
                 failed_indices, cooldown_left, pass_cfg, retry_results, old_cfg>>

(* ---------------------------------------------------------------------- *)
(* GoogleTranslator.translate_texts_with_retry (the retry loop)            *)
(* ---------------------------------------------------------------------- *)
\* mutant of GetStep: the index wraps around instead of stopping at the end
GetStepWrapAround(table, pass_num) == table[(pass_num % Len(table)) + 1]

\* lines 275-278
GetStep(table, pass_num) == table[Min(pass_num, Len(table) - 1) + 1]

\* lines 292-295 and 400: the entry still counts as untranslated
StillFailing(r) == r # <<>> /\ ContainsChinese(r) /\ CountChinese(r) > ChineseThreshold

\* lines 290-295: the scan, indices in increasing order
Scan(res) == SelectSeq([i \in 1..Len(res) |-> i], LAMBDA i : StillFailing(res[i]))

\* mutant of PassSettings: the stall counter forces nothing
PassSettingsNoStall(rp, f, prev, stall, maxw) ==
  [stall_count |-> IF prev # -1 /\ Len(f) >= prev THEN stall + 1 ELSE 0,
   workers_cap |-> GetStep(WORKER_STEPS, rp),
   interval    |-> GetStep(INTERVAL_STEPS, rp),
   cooldown    |-> GetStep(COOLDOWN_STEPS, rp),
   extra_retry |-> GetStep(EXTRA_RETRIES, rp),
   retry_workers |-> Min(IF GetStep(WORKER_STEPS, rp) > 0 THEN GetStep(WORKER_STEPS, rp)
                         ELSE maxw, Len(f))]

\* lines 306-327: the settings of retry pass rp with failing list f
PassSettings(rp, f, prev, stall, maxw) ==
  LET stalled == prev # -1 /\ Len(f) >= prev
      sc      == IF stalled THEN stall + 1 ELSE 0
      force   == stalled /\ sc >= StallLimit
      wc0     == GetStep(WORKER_STEPS, rp)
      wc      == IF force THEN Min(IF wc0 # 0 THEN wc0 ELSE StallWorkers, StallWorkers)
                 ELSE wc0
  IN  [stall_count |-> sc,
       workers_cap |-> wc,
       interval    |-> IF force THEN Max(GetStep(INTERVAL_STEPS, rp), StallInterval)
                       ELSE GetStep(INTERVAL_STEPS, rp),
       cooldown    |-> IF force THEN Max(GetStep(COOLDOWN_STEPS, rp), StallCooldown)
                       ELSE GetStep(COOLDOWN_STEPS, rp),
       extra_retry |-> GetStep(EXTRA_RETRIES, rp),
       retry_workers |-> Min(IF wc > 0 THEN wc ELSE maxw, Len(f))]

\* retry passes the model follows
PassLimit == IF backend = "stuck" THEN MaxPassLong ELSE MaxPass

\* mutant of LoopExits: a pass limit
LoopExitsOnPassLimit(c, f) == c \/ f = <<>> \/ retry_pass >= 1

\* line 288 (the while test) and lines 297-298 (nothing left): leave the loop
LoopExits(c, f) == c \/ f = <<>>

\* lines 288-335: top of the loop, up to the cooldown
LoopHead ==
  /\ pc = "loop"
  /\ LET f == Scan(results)
     IN  IF LoopExits(cancel, f)
         THEN /\ pc' = "done"
              /\ UNCHANGED <<stats, retry_pass, prev_failed_count, stall_count,
                             failed_indices, cooldown_left, pass_cfg, workers>>
         ELSE /\ retry_pass < PassLimit
              /\ LET ps == PassSettings(retry_pass + 1, f, prev_failed_count,
                                        stall_count, max_workers)
                 IN  /\ retry_pass' = retry_pass + 1
                     /\ stats' = [stats EXCEPT !.retry_passes = @ + 1]
                     /\ stall_count' = ps.stall_count
                     /\ prev_failed_count' = Len(f)
                     /\ failed_indices' = f
                     /\ pass_cfg' = [workers_cap |-> ps.workers_cap,
                                     interval |-> ps.interval,
                                     cooldown |-> ps.cooldown,
                                     extra_retry |-> ps.extra_retry]
                     /\ workers' = ps.retry_workers
                     /\ cooldown_left' = ps.cooldown
                     /\ pc' = "cooldown"
  /\ UNCHANGED <<locks, avars, cvars, bvars, texts, backend, calls, cancel, max_workers, max_retries, request_interval,
                 cache, completed, total, failed_texts, results, batch, tasks,
                 collected, looping, retry_results, old_cfg>>

\* mutant of AfterCooldownCheck: the cooldown slept through without a flag check
AfterCooldownCheckUnchunked(left, c) == IF left = 0 THEN "cooled" ELSE "sleeping"

\* lines 338-343: "if cooldown > 0", the for-loop test and the flag check
AfterCooldownCheck(left, c) == IF left = 0 \/ c THEN "cooled" ELSE "sleeping"

CooldownCheck ==
  /\ pc = "cooldown"
  /\ pc' = AfterCooldownCheck(cooldown_left, cancel)
  /\ UNCHANGED <<locks, avars, cvars, bvars, texts, backend, calls, cancel, max_workers, max_retries, request_interval,
                 cache, stats, completed, total, failed_texts, results, batch, tasks,
                 collected, looping, workers, retry_pass, prev_failed_count, stall_count,
                 failed_indices, cooldown_left, pass_cfg, retry_results, old_cfg>>

\* line 344: time.sleep(1)
CooldownSleep ==
  /\ pc = "sleeping"
  /\ cooldown_left' = cooldown_left - 1
  /\ pc' = "cooldown"
  /\ UNCHANGED <<locks, avars, cvars, bvars, texts, backend, calls, cancel, max_workers, max_retries, request_interval,
                 cache, stats, completed, total, failed_texts, results, batch, tasks,
                 collected, looping, workers, retry_pass, prev_failed_count, stall_count,
                 failed_indices, pass_cfg, retry_results, old_cfg>>

\* mutant of Evict: the failing texts' cache entries are kept
EvictNothing(c, f) == c

\* lines 350-353: evict the failing texts' cache entries
Evict(c, f) ==
  LET gone == {Strip(texts[f[j]]) : j \in DOMAIN f}
  IN  [k \in DOMAIN c \ gone |-> c[k]]

\* mutant of SavedSettings: the values saved after the pass's settings are set
SavedAfterChange(interval, retries) ==
  [interval |-> Max(pass_cfg.interval, interval),
   max_retries |-> retries + pass_cfg.extra_retry]

\* lines 356-357: old_interval, old_max_retries
SavedSettings(interval, retries) == [interval |-> interval, max_retries |-> retries]

\* lines 350-373: eviction, the pass's settings and the submission of the
\* failing texts
SubmitRetry ==
  /\ cache' = Evict(cache, failed_indices)
  /\ old_cfg' = SavedSettings(request_interval, max_retries)
  /\ request_interval' = Max(pass_cfg.interval, request_interval)
  /\ max_retries' = max_retries + pass_cfg.extra_retry
  /\ total' = Len(failed_indices)
  /\ completed' = 0
  /\ batch' = [j \in DOMAIN failed_indices |-> texts[failed_indices[j]]]
  /\ retry_results' = Blanks(Len(failed_indices))
  /\ tasks' = AllPending(Len(failed_indices))
  /\ collected' = {}
  /\ looping' = TRUE
  /\ pc' = "retry_pass"

\* lines 346-373: the check after the cooldown, then eviction, the pass's
\* settings and the submission of the failing texts
AfterCooldown ==
  /\ pc = "cooled"
  /\ IF cancel
     THEN /\ pc' = "done"
          /\ UNCHANGED <<cache, old_cfg, request_interval, max_retries, total, completed,
                         batch, retry_results, tasks, collected, looping>>
     ELSE SubmitRetry
  /\ UNCHANGED <<locks, avars, cvars, bvars, texts, backend, calls, cancel, max_workers, stats, failed_texts, results,
                 workers, retry_pass, prev_failed_count, stall_count,
                 failed_indices, cooldown_left, pass_cfg>>

\* mutant of Improved: every output of the pass is taken
ImprovedAlways(t) == TRUE

\* line 387: "if translated and not is_chinese_fn(translated)"
Improved(t) == t # <<>> /\ ~ContainsChinese(t)

\* mutant of ApplyImproved: an output written at its position in the failing list
ApplyAtListPosition(res, f, rr) ==
  [i \in DOMAIN res |-> IF i \in DOMAIN rr /\ Improved(rr[i]) THEN rr[i] ELSE res[i]]

\* mutant of ApplyImproved: the pass's results are dropped
ApplyNothing(res, f, rr) == res

\* lines 385-389
ApplyImproved(res, f, rr) ==
  [i \in DOMAIN res |->
     IF \E j \in DOMAIN f : f[j] = i /\ Improved(rr[j])
     THEN rr[CHOOSE j \in DOMAIN f : f[j] = i]
     ELSE res[i]]

\* lines 383-393: apply the pass's results and restore the settings
ApplyRetry ==
  /\ pc = "apply"
  /\ results' = ApplyImproved(results, failed_indices, retry_results)
  /\ request_interval' = old_cfg.interval
  /\ max_retries' = old_cfg.max_retries
  /\ pc' = "loop"
  /\ UNCHANGED <<locks, avars, cvars, bvars, texts, backend, calls, cancel, max_workers,
                 cache, stats, completed, total, failed_texts, batch, tasks,
                 collected, looping, workers, retry_pass, prev_failed_count, stall_count,
                 failed_indices, cooldown_left, pass_cfg, retry_results, old_cfg>>

(* ---------------------------------------------------------------------- *)
(* Specifications of the translator                                        *)
(* ---------------------------------------------------------------------- *)
\* positions in a submitted list
TaskIds == 1..(CHOOSE n \in 0..8 : /\ \E l \in TextLists : Len(l) = n
                                  /\ \A l \in TextLists : Len(l) <= n)

Init == TInit("any")

Program ==
  \/ \E i \in TaskIds : TaskStart(i)
  \/ \E i \in TaskIds : TaskCache(i)
  \/ \E i \in TaskIds : TaskAttempt(i)
  \/ \E i \in TaskIds : TaskRequest(i)
  \/ \E i \in TaskIds : TaskStore(i)
  \/ \E i \in TaskIds : TaskFailed(i)
  \/ \E i \in TaskIds : Collect(i)
  \/ Start
  \/ PoolExit
  \/ LoopHead
  \/ CooldownCheck
  \/ CooldownSleep
  \/ AfterCooldown
  \/ ApplyRetry

Next == Program \/ Cancel

Spec == Init /\ [][Next]_vars

\* every thread that can run keeps running: pool threads, the coordinating thread
SpecFair == Init /\ [][Next]_vars /\ WF_vars(Program)

\* translate_texts_with_retry has been entered with a list that is not empty
\* (line 261) and has not yet called translate_texts
InitEntered ==
  /\ texts \in TextLists \ {<<>>}
  /\ pc = "entered"
  /\ TFresh("any")
  /\ NoBuild
  /\ NoClean
  /\ NoApp

SpecEntry == InitEntered /\ [][Next]_vars

(* ---------------------------------------------------------------------- *)
(* The calls followed lock by lock                                         *)
(* ---------------------------------------------------------------------- *)
\* mutant of Free: a lock that excludes nobody
FreeAlways(l) == TRUE

\* threading.Lock (lines 59-61, 70): the lock can be taken
Free(l) == locks[l] = 0

\* mutant of LockSteps: the progress counter of a cache hit under failed_lock
LockStepsFailedInside ==
  {[from |-> "cache",         lock |-> "cache",    to |-> "lookup"],
   [from |-> "hit",           lock |-> "stats",    to |-> "hit_stats"],
   [from |-> "hit_counted",   lock |-> "failed",   to |-> "hit_progress"],
   [from |-> "store",         lock |-> "cache",    to |-> "insert"],
   [from |-> "inserted",      lock |-> "stats",    to |-> "store_stats"],
   [from |-> "store_counted", lock |-> "progress", to |-> "store_progress"],
   [from |-> "failed",        lock |-> "failed",   to |-> "log"],
   [from |-> "logged",        lock |-> "stats",    to |-> "fail_stats"],
   [from |-> "fail_counted",  lock |-> "progress", to |-> "fail_progress"]}

\* the "with" statements of _translate_single and _update_progress: the
\* position in front of each, its lock, and the position inside it
LockSteps ==
  {[from |-> "cache",         lock |-> "cache",    to |-> "lookup"],
   [from |-> "hit",           lock |-> "stats",    to |-> "hit_stats"],
   [from |-> "hit_counted",   lock |-> "progress", to |-> "hit_progress"],
   [from |-> "store",         lock |-> "cache",    to |-> "insert"],
   [from |-> "inserted",      lock |-> "stats",    to |-> "store_stats"],
   [from |-> "store_counted", lock |-> "progress", to |-> "store_progress"],
   [from |-> "failed",        lock |-> "failed",   to |-> "log"],
   [from |-> "logged",        lock |-> "stats",    to |-> "fail_stats"],
   [from |-> "fail_counted",  lock |-> "progress", to |-> "fail_progress"]}

\* lines 90, 92, 140, 143, 167, 171, 179: a call enters a "with" block when
\* nobody holds its lock
LAcquire(i) ==
  /\ i \in DOMAIN tasks
  /\ \E st \in LockSteps :
       /\ tasks[i].pc = st.from
       /\ Free(st.lock)
       /\ locks' = [locks EXCEPT ![st.lock] = i]
       /\ tasks' = [tasks EXCEPT ![i].pc = st.to]
  /\ UNCHANGED <<avars, cvars, bvars, texts, backend, calls, cancel, max_workers,
                 max_retries, request_interval, cache, stats, completed, total,
                 failed_texts, pc, results, batch, collected, looping, workers, retry_pass,
                 prev_failed_count, stall_count, failed_indices, cooldown_left, pass_cfg,
                 retry_results, old_cfg>>

\* line 91: the test under cache_lock; a miss leaves the block
LLookup(i) ==
  /\ i \in DOMAIN tasks
  /\ tasks[i].pc = "lookup"
  /\ LET r == CacheLookup(batch[i], cache)
     IN  IF r.hit
         THEN tasks' = [tasks EXCEPT ![i].pc = "hit"] /\ locks' = locks
         ELSE tasks' = [tasks EXCEPT ![i] = r.task] /\ locks' = [locks EXCEPT !.cache = 0]
  /\ UNCHANGED <<avars, cvars, bvars, texts, backend, calls, cancel, max_workers,
                 max_retries, request_interval, cache, stats, completed, total,
                 failed_texts, pc, results, batch, collected, looping, workers, retry_pass,
                 prev_failed_count, stall_count, failed_indices, cooldown_left, pass_cfg,
                 retry_results, old_cfg>>

\* lines 93, 144-148, 172: the counter of the block, and leaving the block
LCount(i) ==
  /\ i \in DOMAIN tasks
  /\ tasks[i].pc \in {"hit_stats", "store_stats", "fail_stats"}
  /\ stats' = CASE tasks[i].pc = "hit_stats" -> [stats EXCEPT !.cache_hits = @ + 1]
                 [] tasks[i].pc = "store_stats" -> [stats EXCEPT !.requests = @ + 1]
                 [] tasks[i].pc = "fail_stats" -> [stats EXCEPT !.errors = @ + 1]
  /\ tasks' = [tasks EXCEPT ![i].pc =
                 CASE tasks[i].pc = "hit_stats" -> "hit_counted"
                   [] tasks[i].pc = "store_stats" -> "store_counted"
                   [] tasks[i].pc = "fail_stats" -> "fail_counted"]
  /\ locks' = [locks EXCEPT !.stats = 0]
  /\ UNCHANGED <<avars, cvars, bvars, texts, backend, calls, cancel, max_workers,
                 max_retries, request_interval, cache, completed, total, failed_texts, pc,
                 results, batch, collected, looping, workers, retry_pass,
                 prev_failed_count, stall_count, failed_indices, cooldown_left, pass_cfg,
                 retry_results, old_cfg>>

\* lines 179-182: _update_progress under progress_lock; after it the storing
\* and the failed call return (lines 155, 175)
LProgress(i) ==
  /\ i \in DOMAIN tasks
  /\ tasks[i].pc \in {"hit_progress", "store_progress", "fail_progress"}
  /\ completed' = completed + 1
  /\ cancel' = AfterCallback(cancel)
  /\ tasks' = [tasks EXCEPT ![i] =
                 CASE tasks[i].pc = "hit_progress" -> [@ EXCEPT !.pc = "hit_return"]
                   [] tasks[i].pc = "store_progress" -> Ret(@.val)
                   [] tasks[i].pc = "fail_progress" -> FailureOutcome(batch[i])]
  /\ locks' = [locks EXCEPT !.progress = 0]
  /\ UNCHANGED <<avars, cvars, bvars, texts, backend, calls, max_workers, max_retries,
                 request_interval, cache, stats, total, failed_texts, pc, results, batch,
                 collected, looping, workers, retry_pass, prev_failed_count, stall_count,
                 failed_indices, cooldown_left, pass_cfg, retry_results, old_cfg>>

\* line 95: the cached value is read and returned, which leaves the block
LHitReturn(i) ==
  /\ i \in DOMAIN tasks
  /\ tasks[i].pc = "hit_return"
  /\ tasks' = [tasks EXCEPT ![i] = CacheLookup(batch[i], cache).task]
  /\ locks' = [locks EXCEPT !.cache = 0]
  /\ UNCHANGED <<avars, cvars, bvars, texts, backend, calls, cancel, max_workers,
                 max_retries, request_interval, cache, stats, completed, total,
                 failed_texts, pc, results, batch, collected, looping, workers, retry_pass,
                 prev_failed_count, stall_count, failed_indices, cooldown_left, pass_cfg,
                 retry_results, old_cfg>>

\* line 141: the insert under cache_lock
LInsert(i) ==
  /\ i \in DOMAIN tasks
  /\ tasks[i].pc = "insert"
  /\ cache' = CachePut(cache, batch[i], tasks[i].val)
  /\ tasks' = [tasks EXCEPT ![i].pc = "inserted"]
  /\ locks' = [locks EXCEPT !.cache = 0]
  /\ UNCHANGED <<avars, cvars, bvars, texts, backend, calls, cancel, max_workers,
                 max_retries, request_interval, stats, completed, total, failed_texts, pc,
                 results, batch, collected, looping, workers, retry_pass,
                 prev_failed_count, stall_count, failed_indices, cooldown_left, pass_cfg,
                 retry_results, old_cfg>>

\* lines 168-169: the append under failed_lock
LLog(i) ==
  /\ i \in DOMAIN tasks
  /\ tasks[i].pc = "log"
  /\ failed_texts' = Append(failed_texts, <<i, Preview(batch[i])>>)
  /\ tasks' = [tasks EXCEPT ![i].pc = "logged"]
  /\ locks' = [locks EXCEPT !.failed = 0]
  /\ UNCHANGED <<avars, cvars, bvars, texts, backend, calls, cancel, max_workers,
                 max_retries, request_interval, cache, stats, completed, total, pc,
                 results, batch, collected, looping, workers, retry_pass,
                 prev_failed_count, stall_count, failed_indices, cooldown_left, pass_cfg,
                 retry_results, old_cfg>>

\* lines 346-350: the check after the cooldown; the coordinating thread
\* enters the "with" block of the eviction
LCooled ==
  /\ pc = "cooled"
  /\ IF cancel
     THEN pc' = "done" /\ locks' = locks
     ELSE /\ Free("cache")
          /\ locks' = [locks EXCEPT !.cache = -1]
          /\ pc' = "evicting"
  /\ UNCHANGED <<avars, cvars, bvars, texts, backend, calls, cancel, max_workers,
                 max_retries, request_interval, cache, stats, completed, total,
                 failed_texts, results, batch, tasks, collected, looping, workers,
                 retry_pass, prev_failed_count, stall_count, failed_indices, cooldown_left,
                 pass_cfg, retry_results, old_cfg>>

\* lines 351-373: the eviction under cache_lock, then the pass is submitted
LEvict ==
  /\ pc = "evicting"
  /\ SubmitRetry
  /\ locks' = [locks EXCEPT !.cache = 0]
  /\ UNCHANGED <<avars, cvars, bvars, texts, backend, calls, cancel, max_workers, stats,
                 failed_texts, results, workers, retry_pass, prev_failed_count,
                 stall_count, failed_indices, cooldown_left, pass_cfg>>

\* two texts with one cache key
InitLocks ==
  /\ texts = <<TX, TPadX>>
  /\ pc = "idle"
  /\ TFresh("any")
  /\ NoBuild
  /\ NoClean
  /\ NoApp

NextLocks ==
  \/ \E i \in TaskIds : TaskStart(i)
  \/ \E i \in TaskIds : TaskAttempt(i)
  \/ \E i \in TaskIds : TaskRequest(i)
  \/ \E i \in TaskIds : LAcquire(i)
  \/ \E i \in TaskIds : LLookup(i)
  \/ \E i \in TaskIds : LCount(i)
  \/ \E i \in TaskIds : LProgress(i)
  \/ \E i \in TaskIds : LHitReturn(i)
  \/ \E i \in TaskIds : LInsert(i)
  \/ \E i \in TaskIds : LLog(i)
  \/ \E i \in TaskIds : Collect(i)
  \/ Start
  \/ PoolExit
  \/ LoopHead
  \/ CooldownCheck
  \/ CooldownSleep
  \/ LCooled
  \/ LEvict
  \/ ApplyRetry
  \/ Cancel

SpecLocks == InitLocks /\ [][NextLocks]_vars

\* App._on_cancel, app.py lines 534-537
OnCancel ==
  /\ ~cancel_requested
  /\ cancel_requested' = TRUE
  /\ UNCHANGED <<tvars, bvars, cvars, progress_callback>>

\* the translator as App._download_thread runs it: its progress callback
\* leads to progress_cb, and cancel() is called by nothing else
InitApp ==
  /\ texts = <<TX, TY>>
  /\ pc = "idle"
  /\ TFresh("any")
  /\ NoBuild
  /\ NoClean
  /\ cancel_requested = FALSE
  /\ progress_callback = "app"

SpecApp == InitApp /\ [][Program \/ OnCancel]_vars

\* GoogleTranslator(max_workers=1) called on two texts
InitNarrow ==
  /\ texts = <<TX, TY>>
  /\ pc = "idle"
  /\ TFreshWith("any", 1)
  /\ NoBuild
  /\ NoClean
  /\ NoApp

SpecNarrow == InitNarrow /\ [][Next]_vars

\* the endpoint fails the first FlakyK requests for each text, nobody cancels
InitFlaky == TInit("flaky")

SpecFlaky == InitFlaky /\ [][Program]_vars /\ WF_vars(Program)

\* the endpoint fails the first requests for a text, then echoes the text or
\* translates it; two long texts
InitStall ==
  /\ texts = <<TX, TY>>
  /\ pc = "idle"
  /\ TFresh("stuck")
  /\ NoBuild
  /\ NoClean
  /\ NoApp

SpecStall == InitStall /\ [][Program]_vars

(* ---------------------------------------------------------------------- *)
(* Markup as strings: a tag is one token                                   *)
(* ---------------------------------------------------------------------- *)
OpenTags == {"<p>", "<div>", "<script>", "<form>", "<b>", "<span>", "<body>",
             "<p id=x>", "<div id=x>", "<p id=>", "<div class=ad>"}
CloseTags == {"</p>", "</div>", "</script>", "</form>", "</b>", "</span>", "</body>"}
Tags == OpenTags \cup CloseTags \cup {"<?xml?>"}

\* the element name of a start tag
TagName(t) ==
  CASE t \in {"<p>", "<p id=x>", "<p id=>"} -> "p"
    [] t \in {"<div>", "<div id=x>", "<div class=ad>"} -> "div"
    [] t = "<script>" -> "script"
    [] t = "<form>" -> "form"
    [] t = "<b>" -> "b"
    [] t = "<span>" -> "span"
    [] t = "<body>" -> "body"
    [] OTHER -> ""

\* elem.get('id'): "none" stands for None, "" for an id attribute without value
IdOf(t) ==
  CASE t \in {"<p id=x>", "<div id=x>"} -> "x"
    [] t = "<p id=>" -> ""
    [] OTHER -> "none"

\* the start tag after "del elem.attrib['id']"
WithoutId(t) == IF t \in {"<p id=x>", "<p id=>"} THEN "<p>" ELSE "<div>"

\* characters of a token: "<?xml?>" stands for an XML declaration that names
\* an encoding, "wm" for a text a watermark pattern matches ("twkan.com"),
\* "zw" for an invisible character, "na" for "Chapter content not available."
TokLen(t) ==
  CASE t = "<p>" -> 3
    [] t = "</p>" -> 4
    [] t = "<div>" -> 5
    [] t = "</div>" -> 6
    [] t = "<script>" -> 8
    [] t = "</script>" -> 9
    [] t = "<?xml?>" -> 38
    [] t = "<b>" -> 3
    [] t = "</b>" -> 4
    [] t \in {"<form>", "<span>", "<body>"} -> 6
    [] t \in {"</form>", "</span>", "</body>"} -> 7
    [] t \in {"<p id=x>", "<div id=x>", "<p id=>", "<div class=ad>"} -> 14
    [] t = "wm" -> 9
    [] t = "na" -> 30
    [] OTHER -> 1

\* len(s)
RECURSIVE StrLen(_)
StrLen(s) == IF s = <<>> THEN 0 ELSE TokLen(Head(s)) + StrLen(Tail(s))

RECURSIVE Filter(_, _)
Filter(s, drop) ==
  IF s = <<>> THEN <<>>
  ELSE IF Head(s) \in drop THEN Filter(Tail(s), drop)
  ELSE <<Head(s)>> \o Filter(Tail(s), drop)

\* the first index at which old occurs in s, 0 when it does not
Find(s, old) ==
  LET hits == {i \in 1..(Len(s) - Len(old) + 1) : SubSeq(s, i, i + Len(old) - 1) = old}
  IN  IF hits = {} THEN 0 ELSE CHOOSE i \in hits : \A j \in hits : i <= j

\* str.replace(old, new, 1)
ReplaceFirst(s, old, new) ==
  LET i == Find(s, old)
  IN  IF i = 0 THEN s
      ELSE SubSeq(s, 1, i - 1) \o new \o SubSeq(s, i + Len(old), Len(s))

\* the maximal runs of s: a tag, or the text between two tags
RECURSIVE Runs(_)
Runs(s) ==
  IF s = <<>> THEN <<>>
  ELSE IF Head(s) \in Tags THEN <<<<Head(s)>>>> \o Runs(Tail(s))
  ELSE LET stops == {i \in DOMAIN s : s[i] \in Tags}
           n == IF stops = {} THEN Len(s)
                ELSE (CHOOSE i \in stops : \A j \in stops : i <= j) - 1
       IN  <<SubSeq(s, 1, n)>> \o Runs(SubSeq(s, n + 1, Len(s)))

IsText(run) == run # <<>> /\ Head(run) \notin Tags

(* ---------------------------------------------------------------------- *)
(* ContentCleaner.clean_text and ContentCleaner.clean_html                 *)
(* ---------------------------------------------------------------------- *)
\* clean_text, lines 140-164: invisible characters and watermarks removed
CleanText(s) == Filter(s, {"zw", "wm"})

\* line 462: lxml_html.fromstring raises ParserError for a document with no
\* content and ValueError for a str that starts with an encoding declaration
ParseFails(s) == Strip(s) = <<>> \/ Head(s) = "<?xml?>"

\* cleaner.py line 48
REMOVE_ELEMENTS == {"script", "embed", "object", "form", "input", "button", "textarea"}

\* the index of the end tag that closes the element whose start tag is met
\* at depth d = 0
RECURSIVE MatchClose(_, _, _)
MatchClose(s, j, d) ==
  LET d2 == IF s[j] \in OpenTags THEN d + 1
            ELSE IF s[j] \in CloseTags THEN d - 1 ELSE d
  IN  IF d2 = 0 THEN j ELSE MatchClose(s, j + 1, d2)

\* _remove_element_keep_tail, lines 544-557: the element at i leaves the tree
\* with its content; its tail stays at its place in the text
RemoveElementKeepTail(s, i) ==
  SubSeq(s, 1, i - 1) \o SubSeq(s, MatchClose(s, i, 0) + 1, Len(s))

\* len(elem) == 0 and not (elem.text and elem.text.strip())
NoContent(s, i) == \A k \in (i + 1)..(MatchClose(s, i, 0) - 1) : s[k] = " "

\* the test each removal pass applies to the element at i
Doomed(s, i, pass) ==
  CASE pass = "forbidden" -> TagName(s[i]) \in REMOVE_ELEMENTS
    [] pass = "ad" -> s[i] = "<div class=ad>" /\ NoContent(s, i)
    [] OTHER -> TagName(s[i]) = pass /\ IdOf(s[i]) = "none" /\ NoContent(s, i)

\* one removal pass: the elements from position i on are visited in document
\* order, each tested when it is visited
RECURSIVE Sweep(_, _, _)
Sweep(s, i, pass) ==
  IF i > Len(s) THEN s
  ELSE IF s[i] \in OpenTags /\ Doomed(s, i, pass)
       THEN Sweep(RemoveElementKeepTail(s, i), i, pass)
  ELSE Sweep(s, i + 1, pass)

\* lines 346-355 and 527-536: the first element with an id keeps it
RECURSIVE FixDuplicateIds(_, _, _)
FixDuplicateIds(s, i, seen_ids) ==
  IF i > Len(s) THEN s
  ELSE IF IdOf(s[i]) \in {"none", ""} THEN FixDuplicateIds(s, i + 1, seen_ids)
  ELSE IF IdOf(s[i]) \in seen_ids
       THEN FixDuplicateIds([s EXCEPT ![i] = WithoutId(@)], i + 1, seen_ids)
  ELSE FixDuplicateIds(s, i + 1, seen_ids \cup {IdOf(s[i])})

\* the passes of clean_content (lines 282-361) and of _clean_html_content
\* (lines 468-538) in their order: forbidden elements, ad divs, empty inline
\* tags ("b" before "span"), text, ids.  The elements from position first on
\* can be removed.  The markup of this model has no deprecated tag and no br.
CleanTree(s, first) ==
  LET forbidden == Sweep(s, first, "forbidden")
      ads       == Sweep(forbidden, first, "ad")
      bs        == Sweep(ads, first, "b")
      spans     == Sweep(bs, first, "span")
  IN  FixDuplicateIds(CleanText(spans), 1, {})

\* number of elements at the top level of a fragment
RECURSIVE TopElements(_, _)
TopElements(s, depth) ==
  IF s = <<>> THEN 0
  ELSE IF Head(s) \in OpenTags
       THEN (IF depth = 0 THEN 1 ELSE 0) + TopElements(Tail(s), depth + 1)
  ELSE IF Head(s) \in CloseTags THEN TopElements(Tail(s), depth - 1)
  ELSE TopElements(Tail(s), depth)

\* lxml_html.fromstring on a fragment followed by tostring (lines 462, 464):
\* a single element is kept, text without markup becomes a paragraph, several
\* block elements are wrapped in a div
Rooted(s) ==
  IF \A i \in DOMAIN s : s[i] \notin Tags THEN <<"<p>">> \o s \o <<"</p>">>
  ELSE IF TopElements(s, 0) > 1 THEN <<"<div>">> \o s \o <<"</div>">>
  ELSE s

ParseFallbackEmpty(s) == <<>>

\* lines 465-466: the fallback when the markup cannot be parsed
ParseFallback(s) == CleanText(s)

\* clean_html, lines 455-466.  The root that fromstring returns is what
\* tostring serializes: a pass can take the root out of the parsed document
\* but not out of the output, so the removals start at the root's content.
CleanHtml(s) ==
  IF ParseFails(s) THEN ParseFallback(s)
  ELSE CleanTree(Rooted(s), 2)

(* ---------------------------------------------------------------------- *)
(* ContentCleaner.fix_structure, clean_content and process_xhtml           *)
(* ---------------------------------------------------------------------- *)
\* children of a head: a title with text, a title without text, a meta with
\* http-equiv="Content-Type" as found, the one fix_structure makes, a meta
\* with a charset attribute
Titles == {"title:a", "title:", "title:Unknown"}
ContentTypeMetas == {"meta:ct", "meta:ct-utf8"}

\* lines 240-263: the title and the metas of the head
FixHead(h) ==
  LET titles == {i \in DOMAIN h : h[i] \in Titles}
      first  == CHOOSE i \in titles : \A j \in titles : i <= j
      titled == IF titles = {} THEN Append(h, "title:Unknown")
                ELSE IF h[first] = "title:" THEN [h EXCEPT ![first] = "title:Unknown"]
                ELSE h
  IN  <<"meta:ct-utf8">> \o Filter(titled, ContentTypeMetas)

\* fix_structure, lines 220-276: the first head and the first body in document
\* order are the ones found; either is made when there is none
FixStructure(doc) ==
  [heads   |-> IF doc.heads = <<>> THEN <<FixHead(<<>>)>>
               ELSE [doc.heads EXCEPT ![1] = FixHead(@)],
   content |-> IF \E i \in DOMAIN doc.content : doc.content[i] = "<body>"
               THEN doc.content
               ELSE doc.content \o <<"<body>", "</body>">>]

\* clean_content, lines 282-361: every element below the root can be removed
CleanContent(doc) == [doc EXCEPT !.content = CleanTree(@, 1)]

\* markup given to the cleaner: one or two of these elements
Blocks ==
  { <<"<p>", "a", "</p>">>,
    <<"<p>", "a", "zw", "wm", "</p>">>,
    <<"<p>", "a", "<span>", "</span>", "z1", "</p>">>,
    <<"<p>", "a", "<b>", "<span>", "</span>", "</b>", "</p>">>,
    <<"<p>", "a", "<script>", "b", "</script>", "z1", "</p>">>,
    <<"<form>", "<p>", "a", "</p>", "</form>">>,
    <<"<p id=x>", "a", "</p>">>,
    <<"<div id=x>", "a", "</div>">>,
    <<"<p id=>", "a", "</p>">>,
    <<"<div class=ad>", "</div>">> }

HtmlInputs == Blocks \cup {a \o b : a, b \in Blocks}

HeadLists ==
  { <<>>, <<<<>>>>, <<<<"title:a">>>>, <<<<"title:">>>>,
    <<<<"meta:ct", "title:a">>>>, <<<<"title:a", "meta:charset">>>>,
    <<<<"title:a", "title:">>>>, <<<<"title:a">>, <<"title:">>>> }

InBody(s) == <<"<body>">> \o s \o <<"</body>">>

XDocs ==
  [heads : HeadLists,
   content : {<<>>} \cup {InBody(h) : h \in HtmlInputs}
             \cup {InBody(b) \o InBody(b) : b \in Blocks}]

\* calls of one method on its own output
MaxRuns == 2

\* the cleaner is called on markup or on a parsed document
CInit ==
  /\ \/ html_in \in HtmlInputs /\ xdoc_in = NoDoc
     \/ html_in = <<>> /\ xdoc_in \in XDocs
  /\ html_out = <<>>
  /\ xdoc_out = <<>>
  /\ xpc = "idle"
  /\ xtree = NoDoc
  /\ texts = <<>>
  /\ pc = "off"
  /\ TFresh("any")
  /\ NoBuild
  /\ NoApp

\* clean_html(html_content), on the argument or on the previous output
CleanHtmlCall ==
  /\ Len(html_out) < MaxRuns
  /\ html_out' = Append(html_out, CleanHtml(IF html_out = <<>> THEN html_in
                                            ELSE html_out[Len(html_out)]))
  /\ UNCHANGED <<avars, tvars, bvars, html_in, xdoc_in, xdoc_out, xpc, xtree>>

\* process_xhtml lines 443-447: parse_xhtml and fix_structure
XFixStructure ==
  /\ xpc = "idle"
  /\ Len(xdoc_out) < MaxRuns
  /\ xtree' = FixStructure(IF xdoc_out = <<>> THEN xdoc_in ELSE xdoc_out[Len(xdoc_out)])
  /\ xpc' = "fixed"
  /\ UNCHANGED <<avars, tvars, bvars, html_in, html_out, xdoc_in, xdoc_out>>

\* process_xhtml lines 448-449: clean_content and serialize_xhtml
XCleanContent ==
  /\ xpc = "fixed"
  /\ xdoc_out' = Append(xdoc_out, CleanContent(xtree))
  /\ xpc' = "idle"
  /\ UNCHANGED <<avars, tvars, bvars, html_in, html_out, xdoc_in, xtree>>

NextClean == CleanHtmlCall \/ XFixStructure \/ XCleanContent

SpecClean == CInit /\ [][NextClean]_vars

(* ---------------------------------------------------------------------- *)
(* TranslatedEPUBBuilder.build_with_translation                            *)
(* ---------------------------------------------------------------------- *)
\* _extract_text_segments, lines 378-393: the stripped text nodes longer than
\* one character that contain a CJK character
Segment(run) == Strip(run)
IsSegment(run) == IsText(run) /\ Len(Strip(run)) > 1 /\ ContainsChinese(Strip(run))

ExtractSegments(html) ==
  LET rs == SelectSeq(Runs(html), IsSegment)
  IN  [j \in DOMAIN rs |-> Segment(rs[j])]

\* lines 286-288: the segments kept for translation
ContentEntries(idx, html) ==
  LET segs == SelectSeq(ExtractSegments(html),
                        LAMBDA t : ContainsChinese(t) /\ Len(Strip(t)) > 0)
  IN  [j \in DOMAIN segs |-> <<"content", idx, segs[j]>>]

\* line 346
Placeholder == <<"<p>", "na", "</p>">>

Chap(u, t, c) == [url |-> u, title |-> t, content |-> c]

\* same phrase twice
BodyDup == <<"<p>", "z1", "z2", "</p>", "<p>", "z1", "z2", "</p>">>
\* a paragraph of one Latin character
BodyShort == <<"<p>", "a", "</p>">>
\* a script whose tail is a watermark, then a long paragraph
BodyNoise == <<"<p>", "a", "<script>", "b", "</script>", "wm", "</p>", "<p>">>
             \o TY \o <<"</p>">>
\* an encoding declaration, then a paragraph with an invisible character
BodyDecl == <<"<?xml?>", "<p>", "zw">> \o TX \o <<"</p>">>

\* the novels built
Novels ==
  { [title |-> <<"a">>, author |-> <<"b">>,
     chapters |-> <<Chap(1, <<"a">>, BodyDup)>>],
    [title |-> TShort, author |-> <<"b">>,
     chapters |-> <<Chap(1, <<"z2", "z1">>, <<>>), Chap(2, <<"a">>, <<" ">>),
                    Chap(3, <<"b">>, BodyShort)>>],
    [title |-> <<"a">>, author |-> <<"z2", "z2">>,
     chapters |-> <<Chap(1, <<"a">>, BodyDecl), Chap(2, <<"b">>, BodyNoise)>>] }

\* build_with_translation is called on a builder whose translator is fresh
BInit ==
  /\ \E n \in Novels :
       /\ novel_info = [title |-> n.title, author |-> n.author]
       /\ chapters = n.chapters
       /\ source = n.chapters
  /\ bpc = "start"
  /\ all_texts = <<>>
  /\ clean_idx = 0
  /\ translated = <<>>
  /\ chapters_with_chinese = <<>>
  /\ packaged = <<>>
  /\ texts = <<>>
  /\ pc = "off"
  /\ TFresh("any")
  /\ NoClean
  /\ NoApp

\* lines 255-272: title, author and chapter titles that contain CJK text
TitleEntries ==
  (IF ContainsChinese(novel_info.title) THEN <<<<"title", 0, novel_info.title>>>> ELSE <<>>)
  \o (IF ContainsChinese(novel_info.author)
      THEN <<<<"author", 0, novel_info.author>>>> ELSE <<>>)
  \o LET idxs == SelectSeq([k \in DOMAIN chapters |-> k],
                           LAMBDA k : ContainsChinese(chapters[k].title))
     IN  [j \in DOMAIN idxs |-> <<"chapter_title", idxs[j], chapters[idxs[j]].title>>]

BCollectTitles ==
  /\ bpc = "start"
  /\ all_texts' = TitleEntries
  /\ chapters_with_chinese' = <<>>
  /\ clean_idx' = 1
  /\ bpc' = "clean"
  /\ UNCHANGED <<avars, cvars, tvars, source, novel_info, chapters, translated, packaged>>

\* lines 275-288: one iteration of the cleaning loop
BCleanChapter ==
  /\ bpc = "clean"
  /\ clean_idx <= Len(chapters)
  /\ LET cleaned == CleanHtml(chapters[clean_idx].content)
     IN  /\ chapters' = [chapters EXCEPT ![clean_idx].content = cleaned]
         /\ all_texts' = all_texts \o ContentEntries(clean_idx, cleaned)
  /\ clean_idx' = clean_idx + 1
  /\ UNCHANGED <<avars, cvars, tvars, bpc, source, novel_info, translated, chapters_with_chinese,
                 packaged>>

\* lines 296-316: the one call of translate_texts_with_retry
BTranslate ==
  /\ bpc = "clean"
  /\ clean_idx > Len(chapters)
  /\ IF all_texts = <<>>
     THEN /\ bpc' = "validate"
          /\ UNCHANGED <<texts, pc>>
     ELSE /\ bpc' = "await"
          /\ texts' = [i \in DOMAIN all_texts |-> all_texts[i][3]]
          /\ pc' = "idle"
  /\ UNCHANGED <<locks, avars, cvars, backend, calls, cancel, max_workers, max_retries, request_interval,
                 cache, stats, completed, total, failed_texts, results, batch, tasks,
                 collected, looping, workers, retry_pass, prev_failed_count, stall_count,
                 failed_indices, cooldown_left, pass_cfg, retry_results, old_cfg,
                 source, novel_info, chapters, all_texts, clean_idx, translated,
                 chapters_with_chinese, packaged>>

\* mutant of Applies: every entry is applied
AppliesAlways(tr, i, original) == TRUE

\* line 322: the entry carries a translation to apply
Applies(tr, i, original) == i <= Len(tr) /\ tr[i] # <<>> /\ tr[i] # original

\* lines 333-335
Substitute(content, original, new) == ReplaceFirst(content, original, new)

\* lines 323-335: the effect of entry i on the novel and the chapters
ApplyEntry(st, entry, new) ==
  LET type == entry[1]
      idx  == entry[2]
  IN  CASE type = "title" -> [st EXCEPT !.info.title = new]
        [] type = "author" -> [st EXCEPT !.info.author = new]
        [] type = "chapter_title" -> [st EXCEPT !.chapters[idx].title = new]
        [] type = "content" ->
             [st EXCEPT !.chapters[idx].content = Substitute(@, entry[3], new)]

\* lines 321-335: the loop over all_texts, entries 1..n applied in order
RECURSIVE ApplyAll(_, _, _, _)
ApplyAll(st, entries, tr, n) ==
  IF n = 0 THEN st
  ELSE LET before == ApplyAll(st, entries, tr, n - 1)
       IN  IF Applies(tr, n, entries[n][3])
           THEN ApplyEntry(before, entries[n], tr[n])
           ELSE before

BApply ==
  /\ bpc = "await"
  /\ pc = "done"
  /\ translated' = results
  /\ LET st == ApplyAll([info |-> novel_info, chapters |-> chapters], all_texts,
                        results, Len(all_texts))
     IN  /\ novel_info' = st.info
         /\ chapters' = st.chapters
  /\ bpc' = "validate"
  /\ UNCHANGED <<avars, cvars, tvars, source, all_texts, clean_idx, chapters_with_chinese, packaged>>

\* lines 354-367, the warning list of _verify_translations
VerifyThreshold == 50

Warnings(chs) ==
  LET bad == SelectSeq(chs, LAMBDA c : c.content # <<>>
                                        /\ CountChinese(c.content) > VerifyThreshold)
  IN  [j \in DOMAIN bad |-> <<bad[j].title, CountChinese(bad[j].content)>>]

\* line 343
MinContentLen == 10

\* lines 342-346: the body handed on for one chapter
Validated(content) == IF content = <<>> THEN Placeholder ELSE content

\* lines 337-352: verification, validation and the call of self.build
BFinish ==
  /\ bpc = "validate"
  /\ chapters_with_chinese' = Warnings(chapters)
  /\ chapters' = [k \in DOMAIN chapters |->
                    [chapters[k] EXCEPT !.content = Validated(@)]]
  /\ packaged' = chapters'
  /\ bpc' = "built"
  /\ UNCHANGED <<avars, cvars, tvars, source, novel_info, all_texts, clean_idx, translated>>

NextBuild ==
  \/ BCollectTitles
  \/ BCleanChapter
  \/ BTranslate
  \/ BApply
  \/ BFinish
  \/ Program
  \/ Cancel

SpecBuild == BInit /\ [][NextBuild]_vars

(* ---------------------------------------------------------------------- *)
(* Claims about the translator                                             *)
(* ---------------------------------------------------------------------- *)
\* the usable answers the endpoint can give for text t
Outputs(t) == {r.trans : r \in {x \in Responses(t, "any", 0) : Usable(x)}}

\* r is the result for input t: t itself, or an answer of the endpoint for a
\* text with t's trimmed value (the cache is keyed by the trimmed value)
ResultFor(r, t) ==
  \/ r = t
  \/ /\ Strip(t) # <<>>
     /\ Strip(r) \in {Strip(o) : o \in Outputs(Strip(t))}

\* C1: when no cancellation was requested, the list returned by translate_texts
\* (the first pass) and by translate_texts_with_retry has one element per
\* input and its i-th element is the result for the i-th input, whatever the
\* completion order of the workers.
C1_Ordering ==
  (pc \in {"loop", "done"} /\ ~cancel) =>
    /\ Len(results) = Len(texts)
    /\ \A i \in DOMAIN texts : ResultFor(results[i], texts[i])

\* both workers failed in the first pass, the second before the first, and
\* a retry pass translated both texts
C1_Witness ==
  /\ pc = "done" /\ ~cancel
  /\ texts = <<TX, TY>>
  /\ retry_pass >= 1
  /\ results = <<Tr(TX), Tr(TY)>>
  /\ Len(failed_texts) >= 2
  /\ failed_texts[1][1] = 2
  /\ failed_texts[2][1] = 1

\* C3: translate_texts_with_retry returns only when no result is still
\* failing or cancellation has been requested.
C3_ExitOnlyDoneOrCancelled ==
  pc = "done" => (Scan(results) = <<>> \/ cancel)

\* returned without cancellation after the last retry pass the model allows
C3_Witness ==
  /\ pc = "done" /\ ~cancel
  /\ retry_pass = MaxPass
  /\ Scan(results) = <<>>
  /\ \E i \in DOMAIN texts : StillFailing(texts[i])

\* C4: once cancellation is requested during a cooldown, no further 1-second
\* sleep is started (only the sleep in progress ends), and the invocation
\* goes on to return without evicting the cache or submitting the pass.
C4_CancelInCooldown ==
  [][(cancel /\ pc \in {"cooldown", "sleeping", "cooled"}) =>
       /\ pc = "cooldown" => pc' \in {"cooldown", "cooled"}
       /\ pc = "sleeping" => pc' \in {"sleeping", "cooldown"}
       /\ pc = "cooled" => pc' \in {"cooled", "done"}
       /\ cache' = cache
       /\ tasks' = tasks
       /\ max_retries' = max_retries
       /\ request_interval' = request_interval]_vars

\* cancellation observed with more than one second of the cooldown left,
\* while a cached value of a failing text is still in the cache
C4_Witness ==
  /\ pc = "cooled" /\ cancel
  /\ cooldown_left > 1
  /\ \E j \in DOMAIN failed_indices : Strip(texts[failed_indices[j]]) \in DOMAIN cache

\* C7: a call whose every attempt failed or came back empty returns the
\* original text, appends exactly one entry to the failure log, adds one to
\* the error counter and leaves the cache alone.
C7_FailureIsNoOp ==
  [][\A i \in DOMAIN tasks :
       (tasks[i].pc = "failed" /\ tasks'[i] # tasks[i]) =>
         /\ tasks[i].attempt = max_retries
         /\ tasks'[i].pc = "ret"
         /\ tasks'[i].val = batch[i]
         /\ failed_texts' = Append(failed_texts, <<i, Preview(batch[i])>>)
         /\ stats'.errors = stats.errors + 1
         /\ cache' = cache]_vars

\* a first-pass call has failed: its text is returned, logged and counted
C7_Witness ==
  /\ pc = "first_pass"
  /\ texts = <<TX, TY>>
  /\ tasks[1] = Ret(TX)
  /\ failed_texts = <<<<1, TX>>>>
  /\ stats.errors = 1
  /\ DOMAIN cache = {}

\* C8: a call for a text whose trimmed value is a cache key returns the cached
\* value, adds one to the cache-hit counter, sends no request and does not
\* write the cache.
C8_CacheHit ==
  [][\A i \in DOMAIN tasks :
       (/\ tasks[i].pc = "cache"
        /\ Strip(batch[i]) \in DOMAIN cache
        /\ tasks'[i] # tasks[i]) =>
         /\ tasks'[i] = Ret(cache[Strip(batch[i])])
         /\ stats'.cache_hits = stats.cache_hits + 1
         /\ stats'.requests = stats.requests
         /\ cache' = cache
         /\ calls' = calls]_vars

\* the padded text was answered from the entry cached for its trimmed value
C8_Witness ==
  /\ pc = "first_pass"
  /\ texts = <<TX, TPadX>>
  /\ tasks[1] = Ret(Tr(TX))
  /\ tasks[2] = Ret(Tr(TX))
  /\ stats.cache_hits = 1
  /\ stats.requests = 1

C5_NoNewAttempt ==
  [][cancel =>
       \A i \in DOMAIN tasks :
         (i \in DOMAIN tasks' /\ tasks'[i].pc = "request") => tasks[i].pc = "request"]_vars

C5_DrainedAtReturn ==
  pc \notin {"first_pass", "retry_pass"} => \A i \in DOMAIN tasks : tasks[i].pc = "ret"

C5_EventuallyReturns == (cancel /\ pc # "idle") ~> (pc = "done")

\* C5: once cancellation is requested during a pass, no call goes on to a
\* new request after its flag check, translate_texts_with_retry eventually
\* returns, and whenever it is outside a pool (so also when it returns) every
\* call of the pass has returned.
C5_CancelDuringPass ==
  /\ C5_NoNewAttempt
  /\ []C5_DrainedAtReturn
  /\ C5_EventuallyReturns

\* the as_completed loop has hit its break after a cancellation while one
\* call is inside a request and another is still queued
C5_Witness ==
  /\ pc = "first_pass" /\ cancel /\ ~looping
  /\ \E i \in DOMAIN tasks : tasks[i].pc = "request"
  /\ \E i \in DOMAIN tasks : tasks[i].pc = "pending"

(* ---------------------------------------------------------------------- *)
(* Claims about build_with_translation                                     *)
(* ---------------------------------------------------------------------- *)
\* the entries of all_texts that are content of chapter k, in extraction order
ContentIdx(k) ==
  SelectSeq([i \in DOMAIN all_texts |-> i],
            LAMBDA i : all_texts[i][1] = "content" /\ all_texts[i][2] = k)

\* the body made of runs in which the j-th segment and the ones after it are
\* replaced where they stand by the translations that are applied
RECURSIVE InPlace(_, _, _, _)
InPlace(runs, idxs, tr, j) ==
  IF runs = <<>> THEN <<>>
  ELSE IF IsSegment(Head(runs))
       THEN (IF Applies(tr, idxs[j], Segment(Head(runs)))
             THEN ReplaceFirst(Head(runs), Segment(Head(runs)), tr[idxs[j]])
             ELSE Head(runs))
            \o InPlace(Tail(runs), idxs, tr, j + 1)
  ELSE Head(runs) \o InPlace(Tail(runs), idxs, tr, j)

Cleaned(k) == CleanHtml(source[k].content)

\* the body of chapter k holds the same phrase twice, as its two segments,
\* and the two translations returned for them differ
TwiceDiffering(k) ==
  LET idxs == ContentIdx(k)
  IN  /\ Len(idxs) = 2
      /\ all_texts[idxs[1]][3] = all_texts[idxs[2]][3]
      /\ translated[idxs[1]] # translated[idxs[2]]

\* C6: when a chapter body holds the same phrase twice, as two segments, and
\* the run was not cancelled and returned two different translations for
\* them, the body after reinsertion has every applied translation at the
\* occurrence its segment was extracted from.
C6_SubstitutionInDocumentOrder ==
  (bpc = "validate" /\ ~cancel /\ Len(translated) = Len(all_texts) /\ all_texts # <<>>) =>
    \A k \in DOMAIN chapters :
      TwiceDiffering(k) =>
        chapters[k].content = InPlace(Runs(Cleaned(k)), ContentIdx(k), translated, 1)

\* the run returned the first of two equal segments unchanged and a
\* translation for the second
C6_Case ==
  /\ bpc = "validate" /\ ~cancel /\ Len(translated) = Len(all_texts) /\ all_texts # <<>>
  /\ \E k \in DOMAIN chapters :
       /\ TwiceDiffering(k)
       /\ translated[ContentIdx(k)[1]] = all_texts[ContentIdx(k)[1]][3]
       /\ translated[ContentIdx(k)[2]] = Tr(all_texts[ContentIdx(k)[2]][3])

\* line 343: the body is empty or shorter than the minimal length
Minimal(content) == content = <<>> \/ StrLen(Strip(content)) < MinContentLen

\* C9: the validation step replaces by the placeholder the body of every
\* chapter whose body is empty or has fewer than 10 characters after
\* trimming, so that no such body is packaged.
C9_MinimalBodyReplaced ==
  [][(bpc = "validate" /\ bpc' = "built") =>
       \A k \in DOMAIN chapters :
         Minimal(chapters[k].content) => packaged'[k].content = Placeholder]_vars

\* a body that is short but not empty reaches the validation step
C9_Case ==
  /\ bpc = "validate"
  /\ \E k \in DOMAIN chapters :
       chapters[k].content # <<>> /\ Minimal(chapters[k].content)

TagsOf(s) == SelectSeq(s, LAMBDA t : t \in Tags)

\* chapter k is packaged with a placeholder, untranslated or translated body
Degraded(k) ==
  \/ packaged[k].content = Placeholder /\ Cleaned(k) = <<>>
  \/ packaged[k].content = Cleaned(k)
  \/ /\ \E j \in DOMAIN ContentIdx(k) :
          Applies(translated, ContentIdx(k)[j], all_texts[ContentIdx(k)[j]][3])
     /\ TagsOf(packaged[k].content) = TagsOf(Cleaned(k))

\* C10: a body that cannot be parsed comes out of cleaning as the raw content
\* with the character-level cleaning applied, and every input chapter is
\* packaged, in input order, with a translated, untranslated or placeholder
\* body, whatever failed on the way.
C10_ErrorIsolation ==
  /\ bpc = "clean" =>
       \A k \in 1..(clean_idx - 1) :
         ParseFails(source[k].content) =>
           chapters[k].content = CleanText(source[k].content)
  /\ bpc = "built" =>
       /\ Len(packaged) = Len(source)
       /\ \A k \in DOMAIN source :
            /\ packaged[k].url = source[k].url
            /\ Degraded(k)

\* a novel with a body that cannot be parsed and holds an invisible character
\* is packaged after a run in which a translation failed on every attempt
C10_Witness ==
  /\ bpc = "built"
  /\ stats.errors > 0
  /\ ~cancel
  /\ \E k \in DOMAIN source :
       /\ ParseFails(source[k].content)
       /\ CleanText(source[k].content) # source[k].content
       /\ packaged[k].content # Placeholder

(* ---------------------------------------------------------------------- *)
(* Claims about the cleaner                                                *)
(* ---------------------------------------------------------------------- *)
\* C11: for markup that parses, a second run of clean_html, and a second run
\* of process_xhtml, returns what the first run returned.
C11_Idempotent ==
  /\ (Len(html_out) = 2 /\ ~ParseFails(html_in)) => html_out[2] = html_out[1]
  /\ Len(xdoc_out) = 2 => xdoc_out[2] = xdoc_out[1]

\* clean_html has run twice on a paragraph in which an empty span lies in a b
C11_Case ==
  /\ html_in = <<"<p>", "a", "<b>", "<span>", "</span>", "</b>", "</p>">>
  /\ Len(html_out) = 2
  /\ html_out[1] = <<"<p>", "a", "<b>", "</b>", "</p>">>
  /\ html_out[2] = <<"<p>", "a", "</p>">>

\* the markup of s that lies in no denylisted element
RECURSIVE OutsideForbidden(_, _)
OutsideForbidden(s, depth) ==
  IF s = <<>> THEN <<>>
  ELSE IF Head(s) \in OpenTags /\ (depth > 0 \/ TagName(Head(s)) \in REMOVE_ELEMENTS)
       THEN OutsideForbidden(Tail(s), depth + 1)
  ELSE IF Head(s) \in CloseTags /\ depth > 0 THEN OutsideForbidden(Tail(s), depth - 1)
  ELSE IF depth > 0 THEN OutsideForbidden(Tail(s), depth)
  ELSE <<Head(s)>> \o OutsideForbidden(Tail(s), depth)

TextOf(s) == SelectSeq(s, LAMBDA t : t \notin Tags)

NoForbidden(before, after) ==
  /\ \A i \in DOMAIN after : TagName(after[i]) \notin REMOVE_ELEMENTS
  /\ TextOf(after) = CleanText(TextOf(OutsideForbidden(before, 0)))

\* C12: what clean_html and process_xhtml return holds no element of a
\* denylisted tag, and holds, in order, the cleaned text of the input that lay
\* outside those elements, the text after each of them included.
C12_ForbiddenRemoved ==
  /\ (Len(html_out) >= 1 /\ ~ParseFails(html_in)) => NoForbidden(html_in, html_out[1])
  /\ Len(xdoc_out) >= 1 => NoForbidden(xdoc_in.content, xdoc_out[1].content)

\* clean_html has run on markup whose only top-level element is a form
C12_Case ==
  /\ html_in = <<"<form>", "<p>", "a", "</p>", "</form>">>
  /\ Len(html_out) >= 1
  /\ html_out[1] = html_in

IdValues(s) == {IdOf(s[i]) : i \in DOMAIN s} \ {"none"}

UniqueIds(before, after) ==
  /\ \A i, j \in DOMAIN after :
       (i < j /\ IdOf(after[i]) # "none") => IdOf(after[j]) # IdOf(after[i])
  /\ IdValues(after) = IdValues(before)

\* C13: in what clean_html and process_xhtml return, no two elements carry
\* the same id value, and every id value of the input is still carried.
C13_UniqueIds ==
  /\ (Len(html_out) >= 1 /\ ~ParseFails(html_in)) => UniqueIds(html_in, html_out[1])
  /\ Len(xdoc_out) >= 1 => UniqueIds(xdoc_in.content, xdoc_out[1].content)

\* clean_html has run on two paragraphs that both have an id without value
C13_Case ==
  /\ html_in = <<"<p id=>", "a", "</p>", "<p id=>", "a", "</p>">>
  /\ Len(html_out) >= 1
  /\ html_out[1] = <<"<div>">> \o html_in \o <<"</div>">>

CharsetMetas == ContentTypeMetas \cup {"meta:charset"}

Count(s, set) == Cardinality({i \in DOMAIN s : s[i] \in set})

\* C14: after fix_structure the document has one head, in it one title, whose
\* text is not empty, and one meta that declares a charset, which is the
\* first child of the head; and the document has one body.
C14_StructureRepaired ==
  xpc = "fixed" =>
    /\ Len(xtree.heads) = 1
    /\ Count(xtree.heads[1], Titles) = 1
    /\ Count(xtree.heads[1], {"title:"}) = 0
    /\ Count(xtree.heads[1], CharsetMetas) = 1
    /\ xtree.heads[1][1] \in CharsetMetas
    /\ Count(xtree.content, {"<body>"}) = 1

\* fix_structure has run on a document whose head holds <meta charset=...>
C14_Case ==
  /\ xpc = "fixed"
  /\ xdoc_out = <<>>
  /\ xdoc_in.heads = <<<<"title:a", "meta:charset">>>>
  /\ xtree.heads = <<<<"meta:ct-utf8", "title:a", "meta:charset">>>>

(* ---------------------------------------------------------------------- *)
(* Claims about the retry passes                                           *)
(* ---------------------------------------------------------------------- *)
\* the coordinating thread is inside the retry loop
InRetryLoop == pc \in {"loop", "cooldown", "sleeping", "cooled", "retry_pass", "apply"}

\* C15: when the outputs of a retry pass are applied, every output that is
\* not empty and has at most 5 CJK characters overwrites its failing entry,
\* which the next scan then does not select.
C15_SameAcceptanceTest ==
  [][(pc = "apply" /\ pc' = "loop") =>
       \A j \in DOMAIN failed_indices :
         (retry_results[j] # <<>> /\ CountChinese(retry_results[j]) <= ChineseThreshold) =>
           /\ results'[failed_indices[j]] = retry_results[j]
           /\ ~StillFailing(results'[failed_indices[j]])]_vars

\* a retry pass without cancellation got, for a failing entry, an output with
\* one CJK character left, and the entry still holds the untranslated text
C15_Case ==
  /\ pc = "loop" /\ retry_pass >= 1 /\ ~cancel
  /\ \E j \in DOMAIN failed_indices :
       /\ retry_results[j] = Resid(texts[failed_indices[j]])
       /\ results[failed_indices[j]] = texts[failed_indices[j]]
       /\ StillFailing(results[failed_indices[j]])

\* C16: inside the retry loop every step leaves each stored result as it was
\* or replaces the result of an entry selected as failing by an output that
\* is not empty and that the scan does not select.
C16_NoBadOverwrite ==
  [][InRetryLoop =>
       /\ Len(results') = Len(results)
       /\ \A i \in DOMAIN results :
            \/ results'[i] = results[i]
            \/ /\ \E j \in DOMAIN failed_indices : failed_indices[j] = i
               /\ results'[i] # <<>>
               /\ ~StillFailing(results'[i])]_vars

\* a retry pass has overwritten one failing entry and has left another one,
\* for which it got an output with a CJK character, as it was
C16_Witness ==
  /\ pc = "loop" /\ retry_pass >= 1
  /\ \E j, k \in DOMAIN failed_indices :
       /\ Improved(retry_results[j])
       /\ results[failed_indices[j]] = retry_results[j]
       /\ retry_results[k] = Resid(texts[failed_indices[k]])
       /\ results[failed_indices[k]] = texts[failed_indices[k]]

\* a step that starts a retry pass
PassStarts == retry_pass' = retry_pass + 1

\* the settings the step tables give for pass number p
TableCfg(p) ==
  [workers_cap |-> GetStep(WORKER_STEPS, p),
   interval    |-> GetStep(INTERVAL_STEPS, p),
   cooldown    |-> GetStep(COOLDOWN_STEPS, p),
   extra_retry |-> GetStep(EXTRA_RETRIES, p)]

\* the failing count of the starting pass is not below that of the pass before
NoProgress == prev_failed_count # -1 /\ Len(failed_indices') >= prev_failed_count

Escalates ==
  /\ pass_cfg'.workers_cap <= pass_cfg.workers_cap
  /\ pass_cfg'.interval >= pass_cfg.interval
  /\ pass_cfg'.cooldown >= pass_cfg.cooldown
  /\ pass_cfg'.extra_retry >= pass_cfg.extra_retry

Returns(i) == tasks[i].pc # "ret" /\ tasks'[i].pc = "ret"

\* C19: when a retry pass submits its calls the cache has no entry for the
\* trimmed text of any failing entry, and every call of the pass returns only
\* after its own request was answered or had failed at least once, or with a
\* value that a call of this pass returned for the same trimmed text, or on
\* cancellation.
C19_EvictedBeforeRetry ==
  [][/\ (pc = "cooled" /\ pc' = "retry_pass") =>
          \A j \in DOMAIN failed_indices :
            Strip(texts[failed_indices[j]]) \notin DOMAIN cache'
     /\ pc = "retry_pass" =>
          \A i \in DOMAIN tasks :
            Returns(i) =>
              \/ cancel
              \/ tasks[i].pc = "store"
              \/ tasks[i].pc = "failed" /\ tasks[i].attempt >= 1
              \/ /\ tasks[i].pc = "cache"
                 /\ \E j \in DOMAIN tasks \ {i} :
                      /\ tasks[j].pc = "ret"
                      /\ Strip(batch[j]) = Strip(batch[i])
                      /\ tasks[j].val = tasks'[i].val]_vars

\* the first pass cached an echo for every failing entry (no call failed, no
\* cancellation), and a call of the retry pass is at its request
C19_Witness ==
  /\ pc = "retry_pass" /\ ~cancel
  /\ stats.errors = 0
  /\ \E i \in DOMAIN tasks : tasks[i].pc = "request"

(* ---------------------------------------------------------------------- *)
\* position in texts of the segment that the call of position i translates
OriginalIndex(i) == IF pc = "retry_pass" THEN failed_indices[i] ELSE i

\* C20: every entry appended to the failure log, in the first pass and in
\* every retry pass, holds the position the failed segment has in texts and
\* the preview of its text.
C20_OriginalIndexLogged ==
  [][Len(failed_texts') > Len(failed_texts) =>
       \E i \in DOMAIN tasks :
         /\ tasks[i].pc = "failed" /\ Returns(i)
         /\ failed_texts' = Append(failed_texts,
                                   <<OriginalIndex(i), Preview(texts[OriginalIndex(i)])>>)]_vars

\* a call of a retry pass has failed, its entry is in the log, and the
\* segment's position in the failing list is not its position in texts
C20_Case ==
  /\ pc = "retry_pass"
  /\ failed_texts # <<>>
  /\ \E i \in DOMAIN tasks :
       /\ failed_indices[i] # i
       /\ tasks[i] = Ret(batch[i])
       /\ failed_texts[Len(failed_texts)] = <<i, Preview(batch[i])>>
       /\ texts[i] # batch[i]

(* ---------------------------------------------------------------------- *)
\* attempts one call may make in the current pass
AttemptLimit ==
  IF pc = "retry_pass" THEN BaseRetries + GetStep(EXTRA_RETRIES, retry_pass)
  ELSE BaseRetries

\* what the call of position i does with answer r of its pending request
Answered(i, r) == AfterRequest(tasks[i], r, max_retries)

\* the answers the call of position i may get to its pending request
Answers(i) == Responses(batch[i], backend, CallsOf(batch[i]))

\* the attempts of every call stay within the pass's limit, which is at most
\* base + 3, and after its j-th failed attempt a call has slept 2^j seconds,
\* or not at all when that attempt was its last
WithinBudget ==
  /\ AttemptLimit <= BaseRetries + 3
  /\ \A i \in DOMAIN tasks :
       /\ tasks[i].pc = "request" => tasks[i].attempt < AttemptLimit
       /\ tasks[i].pc \in {"attempt", "failed"} =>
            /\ tasks[i].attempt <= AttemptLimit
            /\ tasks[i].wait = IF tasks[i].attempt = 0 \/ tasks[i].attempt = AttemptLimit
                               THEN 0 ELSE 2 ^ tasks[i].attempt
       /\ tasks[i].pc = "failed" => tasks[i].attempt = AttemptLimit

\* C21 (amended): within the attempt budget and with the backoff waits, a
\* call stops at the first translation that is not empty after trimming, and
\* every other answer counts as a failed attempt.
C21_BudgetAndBackoff ==
  /\ WithinBudget
  /\ \A i \in DOMAIN tasks :
       tasks[i].pc = "request" =>
         \A r \in Answers(i) :
           IF r.ok /\ Strip(r.trans) # <<>>
           THEN Answered(i, r).pc = "store" /\ Answered(i, r).val = r.trans
           ELSE /\ Answered(i, r).pc = "attempt"
                /\ Answered(i, r).attempt = tasks[i].attempt + 1

\* C21 as stated: within the attempt budget and with the backoff waits, a
\* call stops at the first non-empty translation.
C21_StopsAtNonEmpty ==
  /\ WithinBudget
  /\ \A i \in DOMAIN tasks :
       tasks[i].pc = "request" =>
         \A r \in Answers(i) :
           (r.ok /\ r.trans # <<>>) => Answered(i, r).pc = "store"

\* in retry pass 2 a call has used its base attempts and the bonus attempt,
\* and did not sleep after the last one
C21_Witness ==
  /\ pc = "retry_pass" /\ retry_pass = 2
  /\ GetStep(EXTRA_RETRIES, retry_pass) = 1
  /\ \E i \in DOMAIN tasks :
       /\ tasks[i].pc = "failed"
       /\ tasks[i].attempt = BaseRetries + 1
       /\ tasks[i].wait = 0

(* ---------------------------------------------------------------------- *)
\* translate_texts_with_retry has been entered and has not returned
Invoked == pc \notin {"idle", "off", "done"}

\* C23: once cancel() was called inside an invocation, no step of the
\* invocation clears the flag, and no further retry pass is started.
C23_CancelNeverLost ==
  [][(cancel /\ Invoked) =>
       /\ cancel'
       /\ retry_pass' = retry_pass
       /\ pc' = "retry_pass" => pc = "retry_pass"]_vars

\* cancel() was called after the entry of translate_texts_with_retry and
\* before translate_texts has started
C23_Case == pc = "entered" /\ cancel

(* ---------------------------------------------------------------------- *)
\* C24: the list translate_texts_with_retry returns has one element per
\* input, and no element for a non-empty input is the empty string, also
\* after a cancellation.
C24_PartialResults ==
  pc = "done" =>
    /\ Len(results) = Len(texts)
    /\ \A i \in DOMAIN texts : texts[i] # <<>> => results[i] # <<>>

\* returned after a cancellation with an empty string at a position whose
\* translation a call had completed and cached
C24_Case ==
  /\ pc = "done" /\ cancel
  /\ \E i \in DOMAIN texts :
       /\ results[i] = <<>>
       /\ Strip(texts[i]) \in DOMAIN cache
       /\ ~ContainsChinese(cache[Strip(texts[i])])

(* ---------------------------------------------------------------------- *)
\* C26: the calls running at the same time are never more than max_workers
\* and never more than the texts submitted in the pass.
C26_BoundedConcurrency ==
  /\ Cardinality(Running) <= max_workers
  /\ Cardinality(Running) <= Len(batch)

\* a retry pass with more failing texts than max_workers runs more calls at
\* once than max_workers
C26_Case ==
  /\ pc = "retry_pass"
  /\ Len(failed_indices) > max_workers
  /\ workers = Len(failed_indices)
  /\ Cardinality(Running) > max_workers

(* ---------------------------------------------------------------------- *)
\* the set of the indices a failing list holds
IndexSet(f) == {f[j] : j \in DOMAIN f}

\* C27: inside the retry loop an entry the scan does not count as failing is
\* never written again, and the failing list of each retry pass after the
\* first is a subset of the previous one and not longer.
C27_ProgressKept ==
  [][InRetryLoop =>
       /\ \A i \in DOMAIN results :
            ~StillFailing(results[i]) => (i \in DOMAIN results' /\ results'[i] = results[i])
       /\ (PassStarts /\ retry_pass >= 1) =>
            /\ IndexSet(failed_indices') \subseteq IndexSet(failed_indices)
            /\ Len(failed_indices') <= Len(failed_indices)]_vars

\* the second retry pass has a shorter failing list than the texts that
\* failed at first, and is about to apply an output to the entry still failing
C27_Witness ==
  /\ pc = "apply" /\ retry_pass = 2 /\ ~cancel
  /\ Len(failed_indices) = 1
  /\ \E i \in DOMAIN results \ IndexSet(failed_indices) :
       StillFailing(texts[i]) /\ ~StillFailing(results[i])
  /\ Improved(retry_results[1])

(* ---------------------------------------------------------------------- *)
\* C28: request_interval and max_retries change only while no call is
\* queued or running; during a retry pass they are the values of the call
\* raised by that pass's table entries alone; and when
\* translate_texts_with_retry has returned they are the values of the call.
C28_SettingsRestored ==
  /\ [][(max_retries' # max_retries \/ request_interval' # request_interval) =>
          \A i \in DOMAIN tasks : tasks[i].pc = "ret"]_vars
  /\ [](pc = "retry_pass" =>
          /\ max_retries = BaseRetries + GetStep(EXTRA_RETRIES, retry_pass)
          /\ request_interval = pass_cfg.interval)
  /\ [](pc = "done" => (max_retries = BaseRetries /\ request_interval = 0))

\* retry pass 2, whose calls had one attempt more and a longer interval, was
\* cancelled while its pool was open, and its settings have been restored
C28_Witness ==
  /\ pc = "loop" /\ cancel /\ retry_pass = 2
  /\ pass_cfg.extra_retry = 1 /\ pass_cfg.interval > 0
  /\ max_retries = BaseRetries /\ request_interval = 0

(* ---------------------------------------------------------------------- *)
\* the novel and the chapters after the first n entries were handled
AfterEntries(n) ==
  ApplyAll([info |-> novel_info, chapters |-> chapters], all_texts, results, n)

\* entry n leaves every chapter but chapter k, and the title of chapter k, alone
OnlyBodyOf(k, n) ==
  /\ AfterEntries(n).info = AfterEntries(n - 1).info
  /\ \A j \in DOMAIN chapters :
       /\ AfterEntries(n).chapters[j].title = AfterEntries(n - 1).chapters[j].title
       /\ j # k =>
            AfterEntries(n).chapters[j].content = AfterEntries(n - 1).chapters[j].content

\* C29: when the translations are applied, an entry whose translation is
\* empty or equal to its original text changes nothing, a content entry
\* changes at most the body of its own chapter, and a title or author entry
\* with another, non-empty translation overwrites exactly its field.
C29_ApplyFrame ==
  (bpc = "await" /\ pc = "done") =>
    \A n \in DOMAIN all_texts :
      LET type == all_texts[n][1]
          original == all_texts[n][3]
          before == AfterEntries(n - 1)
          after == AfterEntries(n)
      IN  /\ (results[n] = <<>> \/ results[n] = original) => after = before
          /\ type = "content" => OnlyBodyOf(all_texts[n][2], n)
          /\ (type = "title" /\ results[n] # <<>> /\ results[n] # original) =>
               after = [before EXCEPT !.info.title = results[n]]
          /\ (type = "author" /\ results[n] # <<>> /\ results[n] # original) =>
               after = [before EXCEPT !.info.author = results[n]]

\* the translations about to be applied hold one that is empty or equal to
\* its original, a usable one for the title or author and a usable one for the
\* body of one of several chapters
C29_Witness ==
  /\ bpc = "await" /\ pc = "done"
  /\ \E n \in DOMAIN all_texts : results[n] = <<>> \/ results[n] = all_texts[n][3]
  /\ \E n \in DOMAIN all_texts :
       all_texts[n][1] \in {"title", "author"} /\ Applies(results, n, all_texts[n][3])
  /\ \E n \in DOMAIN all_texts :
       /\ all_texts[n][1] = "content" /\ Applies(results, n, all_texts[n][3])
       /\ Len(chapters) > 1

(* ---------------------------------------------------------------------- *)
\* C25: once the user has requested cancellation, a cooldown starts no
\* further 1-second sleep, and the pass after the cooldown is not submitted.
C25_CancelReachesCooldown ==
  [][(cancel_requested /\ pc \in {"cooldown", "cooled"}) =>
       /\ pc = "cooldown" => pc' \in {"cooldown", "cooled"}
       /\ pc = "cooled" => pc' \in {"cooled", "done"}]_vars

\* the user has requested cancellation, the cooldown has more than one
\* second left, and the translator's flag is not set
C25_Case ==
  /\ pc = "sleeping" /\ cooldown_left > 1
  /\ cancel_requested /\ ~cancel

(* ---------------------------------------------------------------------- *)
\* positions of a call inside a "with self.cache_lock" block
CacheSection ==
  {"lookup", "hit", "hit_stats", "hit_counted", "hit_progress", "hit_return", "insert"}

\* every thread inside a block on the cache or on the failure log holds the
\* block's lock
SectionsLocked ==
  /\ \A i \in DOMAIN tasks :
       /\ tasks[i].pc \in CacheSection => locks.cache = i
       /\ tasks[i].pc = "log" => locks.failed = i
  /\ pc = "evicting" => locks.cache = -1

\* C22: the cache is read and written, and the failure log appended to, only
\* by the thread that holds the structure's lock; an insert puts the
\* inserting call's non-empty translation under the key, whatever was there.
C22_LockedAccess ==
  /\ []SectionsLocked
  /\ [][/\ cache' # cache =>
            \/ pc = "evicting" /\ locks.cache = -1
            \/ \E i \in DOMAIN tasks :
                 /\ tasks[i].pc = "insert" /\ locks.cache = i
                 /\ Strip(tasks[i].val) # <<>>
                 /\ cache' = CachePut(cache, batch[i], tasks[i].val)
                 /\ cache'[Strip(batch[i])] = tasks[i].val
        /\ failed_texts' # failed_texts =>
            \E i \in DOMAIN tasks : tasks[i].pc = "log" /\ locks.failed = i]_vars

\* two calls missed the cache for the same key and got different
\* translations; one is about to overwrite what the other has inserted
C22_Witness ==
  /\ Len(tasks) = 2
  /\ Strip(batch[1]) = Strip(batch[2])
  /\ \E i, j \in DOMAIN tasks :
       /\ tasks[i].pc = "insert" /\ locks.cache = i
       /\ tasks[j].pc \in {"inserted", "store_stats", "store_counted", "store_progress"}
       /\ Strip(batch[i]) \in DOMAIN cache
       /\ cache[Strip(batch[i])] = tasks[j].val
       /\ tasks[i].val # tasks[j].val

(* ---------------------------------------------------------------------- *)
\* the locks thread h holds
Held(h) == {l \in DOMAIN locks : locks[l] = h}

\* the locks the call of position i is about to take
Wants(i) == {st.lock : st \in {x \in LockSteps : x.from = tasks[i].pc}}

\* the call of position i waits for a lock somebody holds
Blocked(i) == i \in DOMAIN tasks /\ \E l \in Wants(i) : locks[l] # 0

\* C30: a thread takes a lock while holding another one only in the orders
\* cache then stats and cache then progress, the coordinating thread holds
\* at most the cache lock, and whenever a call waits for a lock, the holder
\* of that lock does not wait, or waits for a lock whose holder does not wait.
C30_LockOrder ==
  /\ Held(-1) \subseteq {"cache"}
  /\ Held(-1) # {} => pc = "evicting"
  /\ \A i \in DOMAIN tasks :
       /\ Held(i) \in {{}, {"cache"}, {"stats"}, {"progress"}, {"failed"},
                        {"cache", "stats"}, {"cache", "progress"}}
       /\ \A l \in Wants(i) :
            \/ Held(i) = {}
            \/ Held(i) = {"cache"} /\ l \in {"stats", "progress"}
       /\ \A l \in Wants(i) :
            locks[l] # 0 =>
              \/ locks[l] = -1
              \/ ~Blocked(locks[l])
              \/ \A m \in Wants(locks[l]) : locks[m] = -1 \/ ~Blocked(locks[m])
  /\ ~PoolOpen => locks = Unlocked \/ pc = "evicting"

\* a call holds the cache lock and, inside it, the stats lock, while the
\* call that has inserted the value waits for the stats lock
C30_Witness ==
  \E i, j \in DOMAIN tasks :
    /\ Held(i) = {"cache", "stats"}
    /\ tasks[j].pc = "inserted"
    /\ Blocked(j)

====
